---- MODULE Spec2Model ----
(***************************************************************************)
(* Cut-list optimizer of board-foot-calculator (cutOptimizer, the version  *)
(* with maximal free rectangles, Best-Short-Side-Fit and grain direction). *)
(*                                                                         *)
(* Lengths are integers counting units of DEFAULT_KERF (0.125 inch), so    *)
(* every input is a multiple of 1/8 inch.  On such inputs the code's       *)
(* floating-point sums, differences and products are exact.  The code's    *)
(* epsilon tests are kept as written, in inches:                           *)
(*     a < 0.001 inch  is  a * 1000 < Inch,                                *)
(*     a < 0.01 inch   is  a * 100 < Inch,                                 *)
(*     a > 1 inch      is  a > Inch,                                       *)
(*     area > 0.1 in^2 is  area * 10 > Inch * Inch.                        *)
(***************************************************************************)
EXTENDS Integers, Sequences, FiniteSets, TLC

\* const DEFAULT_KERF = 0.125: the unit of length of this model
DEFAULT_KERF == 1
Inch == 8 * DEFAULT_KERF

\* JavaScript null (an absent species)
Null == "NULL"

Min(a, b) == IF a <= b THEN a ELSE b
Max(a, b) == IF a >= b THEN a ELSE b
Abs(a) == IF a < 0 THEN -a ELSE a

\* x < 0.001
LtEps(x) == x * 1000 < Inch
\* a <= b + 0.001
LeqEps(a, b) == (a - b) * 1000 <= Inch
\* Math.abs(d) < 0.01
Near(d) == Abs(d) * 100 < Inch
\* a < b - 0.01
LtTol(a, b) == (b - a) * 100 > Inch
\* a >= b - 0.01
GeqTol(a, b) == (a - b) * 100 >= -Inch
\* a <= b + 0.01
LeqTol(a, b) == (a - b) * 100 <= Inch

(***************************************************************************)
(* Array.prototype.sort with a comparator: a stable insertion sort, the    *)
(* order every stable sort yields when the comparator is consistent.       *)
(***************************************************************************)

\* the comparator of createStripsForBoard without the 0.1 square inch
\* tolerance: the longer dimension decides between equal areas only
CmpPiecesExact(a, b) ==
  LET areaA == a.effectiveWidth * a.effectiveLength
      areaB == b.effectiveWidth * b.effectiveLength
      maxDimA == Max(a.effectiveWidth, a.effectiveLength)
      maxDimB == Max(b.effectiveWidth, b.effectiveLength)
  IN IF areaB # areaA THEN areaB - areaA
     ELSE maxDimB - maxDimA

\* comparator of createStripsForBoard: area descending (differences of at
\* most 0.1 in^2 count as ties), then the longer dimension descending
CmpPieces(a, b) ==
  LET areaA == a.effectiveWidth * a.effectiveLength
      areaB == b.effectiveWidth * b.effectiveLength
      maxDimA == Max(a.effectiveWidth, a.effectiveLength)
      maxDimB == Max(b.effectiveWidth, b.effectiveLength)
  IN IF Abs(areaB - areaA) * 10 > Inch * Inch THEN areaB - areaA
     ELSE maxDimB - maxDimA

\* comparator of optimizeCuts: area descending
CmpArea(a, b) == (b.length * b.width) - (a.length * a.width)

\* comparator of the free-rectangle list: lower y, then lower x
CmpRects(a, b) == IF ~Near(a.y - b.y) THEN a.y - b.y ELSE a.x - b.x

Cmp(kind, a, b) ==
  CASE kind = "pieces" -> CmpPieces(a, b)
    [] kind = "area" -> CmpArea(a, b)
    [] kind = "rects" -> CmpRects(a, b)

RECURSIVE InsertSorted(_, _, _, _)
InsertSorted(kind, s, e, n) ==
  \* e goes after position n when s[n] does not sort after e
  IF n = 0 \/ Cmp(kind, s[n], e) <= 0
  THEN SubSeq(s, 1, n) \o <<e>> \o SubSeq(s, n + 1, Len(s))
  ELSE InsertSorted(kind, s, e, n - 1)

RECURSIVE SortFrom(_, _, _)
SortFrom(kind, s, done) ==
  IF s = <<>> THEN done
  ELSE SortFrom(kind, Tail(s), InsertSorted(kind, done, Head(s), Len(done)))

Sort(kind, s) == SortFrom(kind, s, <<>>)

\* pieces.sort(...): the array passed in is itself put in order
SortInPlace(kind, pieces) ==
  [sorted |-> Sort(kind, pieces), argument |-> Sort(kind, pieces)]

\* [...pieces].sort(...): a copy is put in order, the array passed in is
\* left as it was
SortCopy(kind, pieces) ==
  [sorted |-> Sort(kind, pieces), argument |-> pieces]

RECURSIVE Flatten(_)
Flatten(ss) == IF ss = <<>> THEN <<>> ELSE Head(ss) \o Flatten(Tail(ss))

SelectIdx(s, Keep(_)) ==
  LET RECURSIVE Go(_)
      Go(i) == IF i > Len(s) THEN <<>>
               ELSE (IF Keep(i) THEN <<s[i]>> ELSE <<>>) \o Go(i + 1)
  IN Go(1)

(***************************************************************************)
(* createStripsForBoard: the helpers working on the free-rectangle list    *)
(***************************************************************************)

\* one candidate of findBestFit: free rectangle r tried in one orientation
Candidate(r, i, kerf, alongWidth, alongHeight, rotated) ==
  LET needsLengthEdgeKerf == LtEps(r.x)
      needsWidthEdgeKerf == LtEps(r.y)
      usableWidth == r.width - (IF needsLengthEdgeKerf THEN kerf ELSE 0)
      usableHeight == r.height - (IF needsWidthEdgeKerf THEN kerf ELSE 0)
      leftoverWidth == usableWidth - alongWidth
      leftoverHeight == usableHeight - alongHeight
  IN [fits |-> LeqEps(alongWidth, usableWidth) /\ LeqEps(alongHeight, usableHeight),
      rect |-> i, rotated |-> rotated,
      shortSide |-> Min(leftoverWidth, leftoverHeight),
      longSide |-> Max(leftoverWidth, leftoverHeight),
      position |-> r.y * 1000 + r.x]

NoFit == [fits |-> FALSE, rect |-> 0, rotated |-> FALSE,
          shortSide |-> 0, longSide |-> 0, position |-> 0]

\* the comparison that replaces the best candidate so far
Better(c, best) ==
  \/ ~best.fits
  \/ c.shortSide < best.shortSide
  \/ c.shortSide = best.shortSide /\ c.longSide < best.longSide
  \/ c.shortSide = best.shortSide /\ c.longSide = best.longSide
     /\ c.position < best.position

TryNormal(grainDirection) == grainDirection = "any" \/ grainDirection = "length"

TryRotatedAlways(grainDirection) == TRUE

TryRotated(grainDirection) == grainDirection = "any" \/ grainDirection = "width"

\* findBestFit(pieceLength, pieceWidth, grainDirection): the chosen free
\* rectangle (its index) and orientation, fits = FALSE for null
FindBestFit(rects, kerf, pieceLength, pieceWidth, grainDirection) ==
  LET RECURSIVE Scan(_, _)
      Scan(i, best) ==
        IF i > Len(rects) THEN best
        ELSE LET n == Candidate(rects[i], i, kerf, pieceLength, pieceWidth, FALSE)
                 b1 == IF TryNormal(grainDirection) /\ n.fits /\ Better(n, best)
                       THEN n ELSE best
                 r == Candidate(rects[i], i, kerf, pieceWidth, pieceLength, TRUE)
                 b2 == IF TryRotated(grainDirection) /\ r.fits /\ Better(r, b1)
                       THEN r ELSE b1
             IN Scan(i + 1, b2)
  IN Scan(1, NoFit)

\* clipRectsAgainstPlacement without the parts left over: a free rectangle
\* the placement overlaps is dropped
ClipOneDropped(rect, px, py, pwidth, pheight, kerf) ==
  LET overlapX == Max(rect.x, px) < Min(rect.x + rect.width, px + pwidth + kerf)
      overlapY == Max(rect.y, py) < Min(rect.y + rect.height, py + pheight + kerf)
  IN IF ~overlapX \/ ~overlapY THEN <<rect>> ELSE <<>>

\* the up to four remainders of one free rectangle that overlaps the placed
\* piece [px, px + pwidth + kerf) x [py, py + pheight + kerf)
ClipOne(rect, px, py, pwidth, pheight, kerf) ==
  LET overlapX == Max(rect.x, px) < Min(rect.x + rect.width, px + pwidth + kerf)
      overlapY == Max(rect.y, py) < Min(rect.y + rect.height, py + pheight + kerf)
      leftWidth == px - rect.x - kerf
      placedRight == px + pwidth + kerf
      rightStart == Max(rect.x, placedRight)
      rightWidth == rect.x + rect.width - rightStart
      bottomHeight == py - rect.y - kerf
      placedTop == py + pheight + kerf
      topStart == Max(rect.y, placedTop)
      topHeight == rect.y + rect.height - topStart
      left == IF LtTol(rect.x, px) /\ leftWidth > Inch
              THEN <<[x |-> rect.x, y |-> rect.y, width |-> leftWidth, height |-> rect.height]>>
              ELSE <<>>
      right == IF LtTol(placedRight, rect.x + rect.width) /\ rightWidth > Inch
               THEN <<[x |-> rightStart, y |-> rect.y, width |-> rightWidth, height |-> rect.height]>>
               ELSE <<>>
      bottom == IF LtTol(rect.y, py) /\ bottomHeight > Inch
                THEN <<[x |-> rect.x, y |-> rect.y, width |-> rect.width, height |-> bottomHeight]>>
                ELSE <<>>
      top == IF LtTol(placedTop, rect.y + rect.height) /\ topHeight > Inch
             THEN <<[x |-> rect.x, y |-> topStart, width |-> rect.width, height |-> topHeight]>>
             ELSE <<>>
  IN IF ~overlapX \/ ~overlapY THEN <<rect>>
     ELSE left \o right \o bottom \o top

\* as clipRectsAgainstPlacement, with every free rectangle left as it is
ClipNothing(rects, px, py, pwidth, pheight, kerf) == rects

\* clipRectsAgainstPlacement(px, py, pwidth, pheight)
ClipRectsAgainstPlacement(rects, px, py, pwidth, pheight, kerf) ==
  Flatten([i \in 1..Len(rects) |-> ClipOne(rects[i], px, py, pwidth, pheight, kerf)])

\* rect lies within other (0.01 tolerance) and is smaller in width or height
ContainedIn(rect, other) ==
  /\ GeqTol(rect.x, other.x)
  /\ GeqTol(rect.y, other.y)
  /\ LeqTol(rect.x + rect.width, other.x + other.width)
  /\ LeqTol(rect.y + rect.height, other.y + other.height)
  /\ (LtTol(rect.width, other.width) \/ LtTol(rect.height, other.height))

\* as removeContainedRects, with nothing removed
KeepContainedRects(rects) == rects

\* removeContainedRects()
RemoveContainedRects(rects) ==
  SelectIdx(rects, LAMBDA i :
     ~\E j \in 1..Len(rects) : j # i /\ ContainedIn(rects[i], rects[j]))

\* the body of mergeRects' inner loop for the pair a = rects[i], b = rects[j]:
\* the first test may widen a and splice b out, and the second test then
\* reads the widened a and the spliced-out b
MergePair(rects, i, j) ==
  LET a == rects[i]
      b == rects[j]
      sameRow == Near(a.y - b.y) /\ Near(a.height - b.height)
      aLeft == sameRow /\ Near(a.x + a.width - b.x)
      bLeft == sameRow /\ ~aLeft /\ Near(b.x + b.width - a.x)
      a1 == IF aLeft THEN [a EXCEPT !.width = a.width + b.width]
            ELSE IF bLeft THEN [a EXCEPT !.x = b.x, !.width = a.width + b.width]
            ELSE a
      sameCol == Near(a1.x - b.x) /\ Near(a1.width - b.width)
      aBelow == sameCol /\ Near(a1.y + a1.height - b.y)
      bBelow == sameCol /\ ~aBelow /\ Near(b.y + b.height - a1.y)
      a2 == IF aBelow THEN [a1 EXCEPT !.height = a1.height + b.height]
            ELSE IF bBelow THEN [a1 EXCEPT !.y = b.y, !.height = a1.height + b.height]
            ELSE a1
      splices == (IF aLeft \/ bLeft THEN 1 ELSE 0) + (IF aBelow \/ bBelow THEN 1 ELSE 0)
      kept == [rects EXCEPT ![i] = a2]
  IN [merged |-> splices > 0,
      rects |-> SubSeq(kept, 1, j - 1) \o SubSeq(kept, j + splices, Len(kept))]

\* mergeRects(): merge the first pair (in loop order) that merges, and start
\* over, until no pair merges
RECURSIVE MergeRects(_)
MergeRects(rects) ==
  LET pairs == {p \in (1..Len(rects)) \X (1..Len(rects)) :
                  p[1] < p[2] /\ MergePair(rects, p[1], p[2]).merged}
      first == CHOOSE p \in pairs : \A q \in pairs :
                  p[1] < q[1] \/ (p[1] = q[1] /\ p[2] <= q[2])
  IN IF pairs = {} THEN rects
     ELSE MergeRects(MergePair(rects, first[1], first[2]).rects)

\* the free-rectangle list after a piece was placed at (px, py): clip,
\* remove contained rectangles, merge, sort
FreeRectsAfter(rects, px, py, pwidth, pheight, kerf) ==
  Sort("rects", MergeRects(RemoveContainedRects(
     ClipRectsAgainstPlacement(rects, px, py, pwidth, pheight, kerf))))

\* as Placement, with the placed length and width taken the wrong way round
PlacementSwapped(piece, fit, rects, kerf) ==
  LET rect == rects[fit.rect]
      pl == piece.effectiveLength
      pw == piece.effectiveWidth
      xOffset == IF LtEps(rect.x) THEN kerf ELSE 0
      yOffset == IF LtEps(rect.y) THEN kerf ELSE 0
  IN [piece |-> piece,
      x |-> rect.x + xOffset,
      y |-> rect.y + yOffset,
      placedLength |-> IF fit.rotated THEN pl ELSE pw,
      placedWidth |-> IF fit.rotated THEN pw ELSE pl,
      rotated |-> fit.rotated]

\* as Placement, at the origin of the rectangle also on the edges of the board
PlacementAtOrigin(piece, fit, rects, kerf) ==
  LET rect == rects[fit.rect]
      pl == piece.effectiveLength
      pw == piece.effectiveWidth
  IN [piece |-> piece,
      x |-> rect.x,
      y |-> rect.y,
      placedLength |-> IF fit.rotated THEN pw ELSE pl,
      placedWidth |-> IF fit.rotated THEN pl ELSE pw,
      rotated |-> fit.rotated]

\* the placement pushed for a piece that fits: the piece's fields and where
\* it goes (edge kerf added when the rectangle touches the left/bottom edge)
Placement(piece, fit, rects, kerf) ==
  LET rect == rects[fit.rect]
      pl == piece.effectiveLength
      pw == piece.effectiveWidth
      xOffset == IF LtEps(rect.x) THEN kerf ELSE 0
      yOffset == IF LtEps(rect.y) THEN kerf ELSE 0
  IN [piece |-> piece,
      x |-> rect.x + xOffset,
      y |-> rect.y + yOffset,
      placedLength |-> IF fit.rotated THEN pw ELSE pl,
      placedWidth |-> IF fit.rotated THEN pl ELSE pw,
      rotated |-> fit.rotated]

(***************************************************************************)
(* Expansion and grouping                                                  *)
(***************************************************************************)

\* as Quantity, with every record taken once
QuantityOne(record) == 1

\* record.quantity || 1
Quantity(record) == IF record.quantity = 0 THEN 1 ELSE record.quantity

\* expandStockBoards(boards); uniqueId `${id}-${i}` is the pair <<id, i>>
ExpandStockBoards(boards) ==
  Flatten([b \in 1..Len(boards) |->
     [i \in 1..Quantity(boards[b]) |->
        [length |-> boards[b].length, width |-> boards[b].width,
         thickness |-> boards[b].thickness, species |-> boards[b].species,
         instanceIndex |-> i - 1, originalId |-> boards[b].id,
         uniqueId |-> <<boards[b].id, i - 1>>]]])

\* expandCutPieces(pieces), with the effective dimensions optimizeCuts adds
ExpandCutPieces(pieces) ==
  Flatten([p \in 1..Len(pieces) |->
     [i \in 1..Quantity(pieces[p]) |->
        [name |-> pieces[p].name,
         length |-> pieces[p].length, width |-> pieces[p].width,
         thickness |-> pieces[p].thickness, species |-> pieces[p].species,
         grainDirection |-> pieces[p].grainDirection,
         instanceIndex |-> i - 1, originalId |-> pieces[p].id,
         uniqueId |-> <<pieces[p].id, i - 1>>,
         effectiveWidth |-> pieces[p].width,
         effectiveLength |-> pieces[p].length]]])

\* parseThickness(notation): inches, in quarters; 0 stands for null (NaN)
ParseThickness(notation) ==
  CASE notation = "4/4" -> 4
    [] notation = "8/4" -> 8
    [] notation = "1.00" -> 4
    [] OTHER -> 0

\* as MakeGroupKey, with the thickness notation normalised to its number
MakeGroupKeyNumeric(thickness, species) ==
  <<ParseThickness(thickness),
    IF species = Null \/ species = "" THEN "unspecified" ELSE species>>

\* makeGroupKey: `${thickness}|${species || 'unspecified'}`, as a pair
MakeGroupKey(thickness, species) ==
  <<thickness, IF species = Null \/ species = "" THEN "unspecified" ELSE species>>

\* as ParseGroupKey, without reading 'unspecified' back as null
ParseGroupKeyRaw(key) == [thickness |-> key[1], species |-> key[2]]

\* parseGroupKey
ParseGroupKey(key) ==
  [thickness |-> key[1],
   species |-> IF key[2] = "unspecified" THEN Null ELSE key[2]]

KeyOf(x) == MakeGroupKey(x.thickness, x.species)

\* the keys of an object filled in this order (for ... in order)
RECURSIVE GroupKeys(_)
GroupKeys(instances) ==
  IF instances = <<>> THEN <<>>
  ELSE LET rest == GroupKeys(SubSeq(instances, 1, Len(instances) - 1))
           k == KeyOf(instances[Len(instances)])
       IN IF \E i \in 1..Len(rest) : rest[i] = k THEN rest ELSE Append(rest, k)

\* as GroupOf, with the instances of every key
GroupOfAll(instances, key) == instances

\* stockByGroup[key] || [], cutsByGroup[key]
GroupOf(instances, key) == SelectIdx(instances, LAMBDA i : KeyOf(instances[i]) = key)

(***************************************************************************)
(* createStripsForBoard: the output                                        *)
(***************************************************************************)

\* p.y.toFixed(3); exact on the 1/8 inch grid
StripKey(y) == y

\* the strips: placements grouped by y in order of first appearance, then
\* sorted by y; each strip lists its placements in placement order
OutputStrips(placements, board) ==
  LET ys == {StripKey(placements[i].y) : i \in 1..Len(placements)}
      RECURSIVE Asc(_)
      Asc(S) == IF S = {} THEN <<>>
                ELSE LET m == CHOOSE v \in S : \A w \in S : v <= w
                     IN <<m>> \o Asc(S \ {m})
      order == Asc(ys)
  IN [k \in 1..Len(order) |->
        LET members == SelectIdx(placements,
                          LAMBDA i : StripKey(placements[i].y) = order[k])
        IN [y |-> members[1].y,
            length |-> board.length,
            pieces |-> members]]

\* flattenStrips(strips)
FlattenStrips(strips) ==
  Flatten([k \in 1..Len(strips) |->
     [i \in 1..Len(strips[k].pieces) |->
        LET p == strips[k].pieces[i]
        IN [cutPieceId |-> p.piece.originalId,
            cutPieceName |-> p.piece.name,
            cutPieceIndex |-> p.piece.instanceIndex,
            species |-> p.piece.species,
            x |-> p.x, y |-> p.y,
            length |-> p.placedLength, width |-> p.placedWidth,
            rotated |-> p.rotated]]])

PlacedPieceIds(placements) == {placements[i].piece.uniqueId : i \in 1..Len(placements)}

\* as UnplacedPieces, telling the pieces apart by the id of their record
UnplacedPiecesById(sorted, placements) ==
  SelectIdx(sorted, LAMBDA i :
     sorted[i].originalId \notin {placements[j].piece.originalId : j \in 1..Len(placements)})

\* as UnplacedPieces, with the placed pieces left in
UnplacedPiecesAll(sorted, placements) == sorted

\* sortedPieces.filter(p => !placedPieceIds.has(p.uniqueId))
UnplacedPieces(sorted, placements) ==
  SelectIdx(sorted, LAMBDA i : sorted[i].uniqueId \notin PlacedPieceIds(placements))

RECURSIVE SumSeq(_)
SumSeq(s) == IF s = <<>> THEN 0 ELSE Head(s) + SumSeq(Tail(s))

\* the assignment pushed for a board that received a cut
Assignment(board, strips) ==
  LET cuts == FlattenStrips(strips)
  IN [stockBoardId |-> board.originalId,
      stockBoardIndex |-> board.instanceIndex,
      uniqueId |-> board.uniqueId,
      thickness |-> board.thickness,
      species |-> board.species,
      length |-> board.length,
      width |-> board.width,
      cuts |-> cuts,
      boardArea |-> board.length * board.width,
      cutsArea |-> SumSeq([i \in 1..Len(cuts) |-> cuts[i].length * cuts[i].width])]

(***************************************************************************)
(* optimizeCuts: the totals of the returned plan                           *)
(***************************************************************************)

\* a JavaScript number that is a ratio: num / den, den > 0
Ratio(num, den) == [num |-> num, den |-> den]

\* as Efficiency, dividing also when no board is used (0 / 0 is NaN)
EfficiencyUnguarded(totalCutArea, totalStockUsed) ==
  Ratio(totalCutArea * 100, totalStockUsed)

\* totalStockUsed > 0 ? (totalCutArea / totalStockUsed) * 100 : 0
Efficiency(totalCutArea, totalStockUsed) ==
  IF totalStockUsed > 0 THEN Ratio(totalCutArea * 100, totalStockUsed)
  ELSE Ratio(0, 1)

\* Math.min(100, efficiency)
ClampEfficiency(e) == IF e.num > 100 * e.den THEN Ratio(100, 1) ELSE e

\* stockBoards.length > 0 ? parseThickness(stockBoards[0].thickness) || 1 : 1,
\* in quarters of an inch
ThicknessInches(boards) ==
  IF Len(boards) > 0 /\ ParseThickness(boards[1].thickness) # 0
  THEN ParseThickness(boards[1].thickness)
  ELSE 4

\* totalStockBF - totalCutBF, in units of 1 / (4 * 64 * 144) board-foot
Waste(totalStockUsed, totalCutArea, boards) ==
  totalStockUsed * ThicknessInches(boards) - totalCutArea * ThicknessInches(boards)

\* Math.max(0, waste)
ClampWaste(w) == Max(0, w)

\* a returned object whose board count is taken from the time as well
PlanStamped(boards, assignments, warnings, unplaced, now) ==
  LET totalStockUsed == SumSeq([i \in 1..Len(assignments) |-> assignments[i].boardArea])
      totalCutArea == SumSeq([i \in 1..Len(assignments) |-> assignments[i].cutsArea])
  IN [assignments |-> assignments,
      waste |-> ClampWaste(Waste(totalStockUsed, totalCutArea, boards)),
      efficiency |-> ClampEfficiency(Efficiency(totalCutArea, totalStockUsed)),
      warnings |-> warnings,
      unplacedPieces |-> unplaced,
      boardsUsed |-> Len(assignments) + now,
      totalStockBoards |-> Len(ExpandStockBoards(boards)),
      generatedAt |-> now]

\* the returned object
Plan(boards, assignments, warnings, unplaced, now) ==
  LET totalStockUsed == SumSeq([i \in 1..Len(assignments) |-> assignments[i].boardArea])
      totalCutArea == SumSeq([i \in 1..Len(assignments) |-> assignments[i].cutsArea])
  IN [assignments |-> assignments,
      waste |-> ClampWaste(Waste(totalStockUsed, totalCutArea, boards)),
      efficiency |-> ClampEfficiency(Efficiency(totalCutArea, totalStockUsed)),
      warnings |-> warnings,
      unplacedPieces |-> unplaced,
      boardsUsed |-> Len(assignments),
      totalStockBoards |-> Len(ExpandStockBoards(boards)),
      generatedAt |-> now]

\* `No stock boards with thickness ${thickness}${speciesLabel} available`;
\* speciesLabel is ` (${species})`, or '' for a null species
NoStockWarning(key) ==
  [text |-> "No stock boards with thickness", thickness |-> ParseGroupKey(key).thickness,
   speciesLabel |-> IF ParseGroupKey(key).species = Null THEN "" ELSE ParseGroupKey(key).species,
   name |-> "", length |-> 0, width |-> 0]

\* `Could not fit "${p.name}" (${p.length}" x ${p.width}") on any
\* ${thickness}${speciesLabel} stock`
NoFitWarning(p, key) ==
  [text |-> "Could not fit", thickness |-> ParseGroupKey(key).thickness,
   speciesLabel |-> IF ParseGroupKey(key).species = Null THEN "" ELSE ParseGroupKey(key).species,
   name |-> p.name, length |-> p.length, width |-> p.width]

\* remainingPieces.forEach(p => warnings.push(...)): one warning per piece
NoFitWarningsOnce(remaining, key) ==
  IF Len(remaining) > 0 THEN <<NoFitWarning(remaining[1], key)>> ELSE <<>>

NoFitWarnings(remaining, key) ==
  [i \in 1..Len(remaining) |-> NoFitWarning(remaining[i], key)]

(***************************************************************************)
(* optimizeCuts as a function of its arguments: what one call returns.     *)
(* calculateStockNeeded calls it many times and reads only its result.     *)
(***************************************************************************)

\* the placing loop of createStripsForBoard from piece i on; PlaceWith is
\* the iteration once findBestFit has returned fit
RECURSIVE PlaceFrom(_, _, _, _, _)
RECURSIVE PlaceWith(_, _, _, _, _, _)
PlaceAt(sorted, i, rects, placed, kerfWidth, p) ==
  PlaceFrom(sorted, i + 1,
            FreeRectsAfter(rects, p.x, p.y, p.placedLength, p.placedWidth, kerfWidth),
            Append(placed, p), kerfWidth)

PlaceWith(sorted, i, rects, placed, kerfWidth, fit) ==
  IF sorted[i].uniqueId \notin PlacedPieceIds(placed) /\ fit.fits
  THEN PlaceAt(sorted, i, rects, placed, kerfWidth,
               Placement(sorted[i], fit, rects, kerfWidth))
  ELSE PlaceFrom(sorted, i + 1, rects, placed, kerfWidth)

PlaceFrom(sorted, i, rects, placed, kerfWidth) ==
  IF i > Len(sorted) THEN placed
  ELSE PlaceWith(sorted, i, rects, placed, kerfWidth,
                 FindBestFit(rects, kerfWidth, sorted[i].effectiveLength,
                             sorted[i].effectiveWidth, sorted[i].grainDirection))

\* what createStripsForBoard returns once the placing loop has ended
StripsResult(board, sorted, placed) ==
  [strips |-> OutputStrips(placed, board),
   unplacedPieces |-> UnplacedPieces(sorted, placed),
   placements |-> placed]

PlaceSorted(board, sorted, kerfWidth) ==
  StripsResult(board, sorted,
     PlaceFrom(sorted, 1,
        <<[x |-> 0, y |-> 0, width |-> board.length, height |-> board.width]>>,
        <<>>, kerfWidth))

\* createStripsForBoard(board, pieces, kerf)
CreateStripsForBoard(board, pieces, kerfWidth) ==
  PlaceSorted(board, Sort("pieces", pieces), kerfWidth)

\* the loop over the boards of a group from board b on; BoardLoopWith is
\* the iteration once createStripsForBoard has returned r
RECURSIVE BoardLoop(_, _, _, _, _)
BoardLoopWith(stock, b, remaining, asgs, kerfWidth, r) ==
  IF Len(r.placements) > 0
  THEN BoardLoop(stock, b + 1, r.unplacedPieces,
                 Append(asgs, Assignment(stock[b], r.strips)), kerfWidth)
  ELSE BoardLoop(stock, b + 1, remaining, asgs, kerfWidth)

BoardLoop(stock, b, remaining, asgs, kerfWidth) ==
  IF b > Len(stock) \/ Len(remaining) = 0
  THEN [assignments |-> asgs, remainingPieces |-> remaining]
  ELSE BoardLoopWith(stock, b, remaining, asgs, kerfWidth,
                     CreateStripsForBoard(stock[b], remaining, kerfWidth))

\* the loop over the piece groups from group g on; GroupWithStock is the
\* iteration for a group with boards once its board loop has ended with r
RECURSIVE GroupLoop(_, _, _, _, _, _)
GroupWithStock(keys, g, boards, pieces, out, kerfWidth, r) ==
  GroupLoop(keys, g + 1, boards, pieces,
     [assignments |-> out.assignments \o r.assignments,
      warnings |-> out.warnings \o NoFitWarnings(r.remainingPieces, keys[g]),
      allUnplacedPieces |-> out.allUnplacedPieces \o r.remainingPieces],
     kerfWidth)

GroupLoop(keys, g, boards, pieces, out, kerfWidth) ==
  IF g > Len(keys) THEN out
  ELSE IF Len(GroupOf(boards, keys[g])) = 0
       THEN GroupLoop(keys, g + 1, boards, pieces,
              [out EXCEPT !.warnings = Append(@, NoStockWarning(keys[g])),
                          !.allUnplacedPieces = @ \o GroupOf(pieces, keys[g])], kerfWidth)
       ELSE GroupWithStock(keys, g, boards, pieces, out, kerfWidth,
              BoardLoop(GroupOf(boards, keys[g]), 1,
                        Sort("area", GroupOf(pieces, keys[g])), <<>>, kerfWidth))

\* the plan made from what the loop over the groups has collected
PlanOf(boards, out, now) ==
  Plan(boards, out.assignments, out.warnings, out.allUnplacedPieces, now)

GroupsOf(boards, expandedCuts, kerfWidth) ==
  GroupLoop(GroupKeys(expandedCuts), 1, ExpandStockBoards(boards), expandedCuts,
            [assignments |-> <<>>, warnings |-> <<>>, allUnplacedPieces |-> <<>>],
            kerfWidth)

\* optimizeCuts(stockBoards, cutPieces, kerf), called at time now
OptimizeCuts(boards, pieces, kerfWidth, now) ==
  PlanOf(boards, GroupsOf(boards, ExpandCutPieces(pieces), kerfWidth), now)

(***************************************************************************)
(* calculateStockNeeded: estimates, test boards, distributions             *)
(***************************************************************************)

\* parseThickness(x.thickness) || 1, in quarters of an inch
ThicknessOr1(notation) ==
  IF ParseThickness(notation) # 0 THEN ParseThickness(notation) ELSE 4

\* calculateCutPiecesBF(cutPieces), in units of 1 / (4 * 64 * 144) board-foot
CalculateCutPiecesBF(pieces) ==
  SumSeq([i \in 1..Len(pieces) |->
            pieces[i].length * pieces[i].width * ThicknessOr1(pieces[i].thickness)
              * Quantity(pieces[i])])

\* Math.ceil(num / den) for num >= 0, den > 0
Ceil(num, den) == (num + den - 1) \div den

\* calculateStockForSingleTemplate: templateBF and estimatedBoards
TemplateBF(template) ==
  template.length * template.width * ThicknessOr1(template.thickness)

EstimatedBoardsSingle(pieces, template) ==
  Max(1, Ceil(CalculateCutPiecesBF(pieces) * 12, TemplateBF(template) * 10))

\* Math.max(estimatedBoards * 2, 10)
High(pieces, template) == Max(EstimatedBoardsSingle(pieces, template) * 2, 10)

\* calculateStockForMultipleTemplates: estimatedBoards; every template is
\* counted with the thickness of the first
EstimatedBoardsMultiple(pieces, templates) ==
  LET templateThickness == ThicknessOr1(templates[1].thickness)
      sumTemplateBF == SumSeq([i \in 1..Len(templates) |->
                          templates[i].length * templates[i].width * templateThickness])
  IN Max(1, Ceil(CalculateCutPiecesBF(pieces) * 13 * Len(templates), sumTemplateBF * 10))

\* a test board made from a template
TestBoard(template, id) ==
  [id |-> id, length |-> template.length, width |-> template.width,
   thickness |-> template.thickness, species |-> template.species,
   quantity |-> 1]

\* testBoards that share the length of one template between them
CopiesOfShared(template, count, now) ==
  [i \in 1..count |->
     [id |-> now + i - 1, length |-> template.length \div count,
      width |-> template.width, thickness |-> template.thickness,
      species |-> template.species, quantity |-> 1]]

\* testBoards with one copy more than asked for
CopiesOfOneMore(template, count, now) ==
  [i \in 1..(count + 1) |-> TestBoard(template, now + i - 1)]

\* the testBoards of calculateStockForSingleTemplate: count copies of the
\* template, with the ids Date.now() + i
CopiesOf(template, count, now) ==
  [i \in 1..count |-> TestBoard(template, now + i - 1)]

\* generateDistributions with the loop over the first bucket begun at 1
RECURSIVE GenerateDistributionsFromOne(_, _)
GenerateDistributionsFromOne(numTemplates, total) ==
  IF numTemplates = 1 THEN <<<<total>>>>
  ELSE Flatten([k \in 1..total |->
         LET rest == GenerateDistributionsFromOne(numTemplates - 1, total - k)
         IN [j \in 1..Len(rest) |-> <<k>> \o rest[j]]])

\* generateDistributions(numTemplates, total), in the order generated
RECURSIVE GenerateDistributions(_, _)
GenerateDistributions(numTemplates, total) ==
  IF numTemplates = 1 THEN <<<<total>>>>
  ELSE Flatten([k \in 1..(total + 1) |->
         LET rest == GenerateDistributions(numTemplates - 1, total - (k - 1))
         IN [j \in 1..Len(rest) |-> <<k - 1>> \o rest[j]]])

\* the testBoards of tryBoardDistribution for one distribution: dist[t]
\* boards of template t, template after template, with the ids boardId++
BoardsOfDistribution(templates, dist, now) ==
  LET flat == Flatten([t \in 1..Len(templates) |->
                 [i \in 1..dist[t] |->
                    [templateIndex |-> t - 1] @@ TestBoard(templates[t], 0)]])
  IN [i \in 1..Len(flat) |-> [flat[i] EXCEPT !.id = now + i - 1]]

\* cutPlan.efficiency > bestEfficiency
RatioGt(a, b) == a.num * b.den > b.num * a.den

NoResult == [boardsNeeded |-> -1]

\* the loop of tryBoardDistribution over the distributions from d on;
\* TryPlan is the iteration once optimizeCuts has returned cutPlan for the
\* testBoards of distribution d
RECURSIVE TryFrom(_, _, _, _, _, _, _, _)
TryPlan(pieces, templates, dists, d, bestResult, bestEfficiency, kerfWidth, now, testBoards, cutPlan) ==
  IF Len(testBoards) # 0 /\ Len(cutPlan.unplacedPieces) = 0
     /\ RatioGt(cutPlan.efficiency, bestEfficiency)
  THEN TryFrom(pieces, templates, dists, d + 1,
          [boardsNeeded |-> Len(testBoards), boards |-> testBoards,
           cutPlan |-> cutPlan,
           boardsByTemplate |->
              SelectIdx([t \in 1..Len(templates) |->
                            [template |-> templates[t], count |-> dists[d][t]]],
                        LAMBDA t : dists[d][t] > 0)],
          cutPlan.efficiency, kerfWidth, now)
  ELSE TryFrom(pieces, templates, dists, d + 1, bestResult, bestEfficiency,
               kerfWidth, now)

TryBoards(pieces, templates, dists, d, bestResult, bestEfficiency, kerfWidth, now, testBoards) ==
  TryPlan(pieces, templates, dists, d, bestResult, bestEfficiency, kerfWidth, now,
          testBoards, OptimizeCuts(testBoards, pieces, kerfWidth, now))

TryFrom(pieces, templates, dists, d, bestResult, bestEfficiency, kerfWidth, now) ==
  IF d > Len(dists) THEN bestResult
  ELSE TryBoards(pieces, templates, dists, d, bestResult, bestEfficiency, kerfWidth, now,
                 BoardsOfDistribution(templates, dists[d], now))

\* tryBoardDistribution(cutPieces, templates, totalBoards, kerf)
TryBoardDistribution(pieces, templates, total, kerfWidth, now) ==
  TryFrom(pieces, templates, GenerateDistributions(Len(templates), total), 1,
          NoResult, Ratio(0, 1), kerfWidth, now)

\* the result object of calculateStockForSingleTemplate for the testBoards
ResultOf(template, testBoards, cutPlan) ==
  [boardsNeeded |-> Len(testBoards),
   boards |-> testBoards,
   cutPlan |-> cutPlan,
   boardsByTemplate |-> <<[template |-> template, count |-> Len(testBoards)]>>]

ResultOfBoards(pieces, template, testBoards, kerfWidth, now) ==
  ResultOf(template, testBoards, OptimizeCuts(testBoards, pieces, kerfWidth, now))

\* the result object of calculateStockForSingleTemplate for count boards
SingleResult(pieces, template, count, kerfWidth, now) ==
  ResultOfBoards(pieces, template, CopiesOf(template, count, now), kerfWidth, now)

\* makeGroupKey(x.thickness || '4/4', x.species)
SolverKeyOf(x) == MakeGroupKey(IF x.thickness = Null THEN "4/4" ELSE x.thickness, x.species)

\* the keys of a list of records in order of first appearance, and the
\* records of one key
RECURSIVE SolverKeys(_)
SolverKeys(records) ==
  IF records = <<>> THEN <<>>
  ELSE LET front == SolverKeys(SubSeq(records, 1, Len(records) - 1))
           k == SolverKeyOf(records[Len(records)])
       IN IF \E i \in 1..Len(front) : front[i] = k THEN front ELSE Append(front, k)

SolverGroupOf(records, key) ==
  SelectIdx(records, LAMBDA i : SolverKeyOf(records[i]) = key)

\* the consolidation key without the species
ConsolidationKeyNoSpecies(board) == <<board.length, board.width, board.thickness>>

\* `${board.length}|${board.width}|${board.thickness}|${board.species || ''}`
ConsolidationKey(board) ==
  <<board.length, board.width, board.thickness,
    IF board.species = Null THEN "" ELSE board.species>>

\* consolidatedBoards: the first board of every key, with the number of
\* boards of that key as its quantity
ConsolidatedBoards(boards) ==
  LET firsts == SelectIdx(boards, LAMBDA i :
                   \A j \in 1..(i - 1) : ConsolidationKey(boards[j]) # ConsolidationKey(boards[i]))
  IN [k \in 1..Len(firsts) |->
        [firsts[k] EXCEPT !.quantity =
           Cardinality({j \in 1..Len(boards) :
                          ConsolidationKey(boards[j]) = ConsolidationKey(firsts[k])})]]

(***************************************************************************)
(* The state: the arguments of the running call, the locals of             *)
(* optimizeCuts and of the createStripsForBoard call it is in, the plan    *)
(* returned, the previous call (for comparing two calls) and the clock     *)
(* that generatedAt reads.                                                 *)
(***************************************************************************)
VARIABLES stockBoards, cutPieces, kerf, pc, gi, bi, remainingPieces,
          assignments, warnings, allUnplacedPieces,
          sortedPieces, pi, freeRects, placements,
          plan, prev, clock

\* calculateStockNeeded: its stockTemplates argument (cutPieces and kerf are
\* the variables above), its position, its locals, those of the search it
\* is in, and the value it returned
VARIABLES stockTemplates, spc, sgi, allBoards, allBoardsByTemplate, boardIdCounter,
          stockTemplate, low, high, totalBoards, estimatedBoards, result,
          stockNeeded

searchVars == <<stockTemplate, low, high, totalBoards, estimatedBoards, result>>
solverVars == <<stockTemplates, spc, sgi, allBoards, allBoardsByTemplate, boardIdCounter,
                searchVars, stockNeeded>>

vars == <<stockBoards, cutPieces, kerf, pc, gi, bi, remainingPieces,
          assignments, warnings, allUnplacedPieces,
          sortedPieces, pi, freeRects, placements,
          plan, prev, clock, solverVars>>

args == <<stockBoards, cutPieces, kerf>>
packVars == <<sortedPieces, pi, freeRects, placements>>
outVars == <<assignments, warnings, allUnplacedPieces>>

NoPlan == [generatedAt |-> -1]
NoCall == [stockBoards |-> <<>>, cutPieces |-> <<>>, kerf |-> 0,
           plan |-> NoPlan, extraAt |-> -1]

\* the piece groups in the order of the for ... in loop, and the boards and
\* pieces of the group the loop is at
CutKeys == GroupKeys(ExpandCutPieces(cutPieces))
GroupKey == CutKeys[gi]

\* the boards of the group, last listed first
AvailableStockReversed ==
  LET s == GroupOf(ExpandStockBoards(stockBoards), GroupKey)
  IN [i \in 1..Len(s) |-> s[Len(s) + 1 - i]]

AvailableStock == GroupOf(ExpandStockBoards(stockBoards), GroupKey)
PiecesForGroup == GroupOf(ExpandCutPieces(cutPieces), GroupKey)

\* optimizeCuts is called
Call ==
  /\ pc = "idle"
  /\ pc' = "groups"
  /\ gi' = 1
  /\ assignments' = <<>>
  /\ warnings' = <<>>
  /\ allUnplacedPieces' = <<>>
  /\ UNCHANGED <<args, bi, remainingPieces, packVars, plan, prev, clock, solverVars>>

\* a piece group without stock: one warning, every piece unplaced
NoStock ==
  /\ pc = "groups"
  /\ gi <= Len(CutKeys)
  /\ Len(AvailableStock) = 0
  /\ warnings' = Append(warnings, NoStockWarning(GroupKey))
  /\ allUnplacedPieces' = allUnplacedPieces \o PiecesForGroup
  /\ gi' = gi + 1
  /\ UNCHANGED <<args, pc, bi, remainingPieces, assignments, packVars, plan, prev, clock, solverVars>>

\* a piece group with stock: sort its pieces by area and go to its boards
BeginGroup ==
  /\ pc = "groups"
  /\ gi <= Len(CutKeys)
  /\ Len(AvailableStock) > 0
  /\ remainingPieces' = Sort("area", PiecesForGroup)
  /\ bi' = 1
  /\ pc' = "boards"
  /\ UNCHANGED <<args, gi, outVars, packVars, plan, prev, clock, solverVars>>

\* createStripsForBoard is entered for the next board of the group
BeginBoard ==
  /\ pc = "boards"
  /\ bi <= Len(AvailableStock)
  /\ Len(remainingPieces) # 0
  /\ sortedPieces' = SortCopy("pieces", remainingPieces).sorted
  /\ remainingPieces' = SortCopy("pieces", remainingPieces).argument
  /\ freeRects' = <<[x |-> 0, y |-> 0, width |-> AvailableStock[bi].length,
                     height |-> AvailableStock[bi].width]>>
  /\ placements' = <<>>
  /\ pi' = 1
  /\ pc' = "pack"
  /\ UNCHANGED <<args, gi, bi, outVars, plan, prev, clock, solverVars>>

\* findBestFit for the piece the placing loop is at
CurrentFit ==
  FindBestFit(freeRects, kerf, sortedPieces[pi].effectiveLength,
              sortedPieces[pi].effectiveWidth, sortedPieces[pi].grainDirection)

\* one iteration of the placing loop in which the piece fits
PlacePiece ==
  /\ pc = "pack"
  /\ pi <= Len(sortedPieces)
  /\ sortedPieces[pi].uniqueId \notin PlacedPieceIds(placements)
  /\ CurrentFit.fits
  /\ LET p == Placement(sortedPieces[pi], CurrentFit, freeRects, kerf)
     IN /\ placements' = Append(placements, p)
        /\ freeRects' = FreeRectsAfter(freeRects, p.x, p.y, p.placedLength,
                                       p.placedWidth, kerf)
  /\ pi' = pi + 1
  /\ UNCHANGED <<args, pc, gi, bi, remainingPieces, outVars, sortedPieces, plan, prev, clock, solverVars>>

\* one iteration of the placing loop in which the piece does not fit (or
\* its uniqueId was placed already)
SkipPiece ==
  /\ pc = "pack"
  /\ pi <= Len(sortedPieces)
  /\ ~(sortedPieces[pi].uniqueId \notin PlacedPieceIds(placements) /\ CurrentFit.fits)
  /\ pi' = pi + 1
  /\ UNCHANGED <<args, pc, gi, bi, remainingPieces, outVars, sortedPieces,
                 freeRects, placements, plan, prev, clock, solverVars>>

\* createStripsForBoard returns; the board is assigned if it got a cut
EndBoard ==
  /\ pc = "pack"
  /\ pi > Len(sortedPieces)
  /\ IF Len(placements) > 0
     THEN /\ assignments' = Append(assignments,
                Assignment(AvailableStock[bi], OutputStrips(placements, AvailableStock[bi])))
          /\ remainingPieces' = UnplacedPieces(sortedPieces, placements)
     ELSE UNCHANGED <<assignments, remainingPieces>>
  /\ bi' = bi + 1
  /\ pc' = "boards"
  /\ UNCHANGED <<args, gi, warnings, allUnplacedPieces, packVars, plan, prev, clock, solverVars>>

\* the boards of the group are exhausted or no piece remains: a warning
\* for every piece that remains
EndGroup ==
  /\ pc = "boards"
  /\ (bi > Len(AvailableStock) \/ Len(remainingPieces) = 0)
  /\ warnings' = warnings \o NoFitWarnings(remainingPieces, GroupKey)
  /\ allUnplacedPieces' = allUnplacedPieces \o remainingPieces
  /\ gi' = gi + 1
  /\ pc' = "groups"
  /\ UNCHANGED <<args, bi, remainingPieces, assignments, packVars, plan, prev, clock, solverVars>>

\* every group is processed: the plan is returned, stamped with the time
Return ==
  /\ pc = "groups"
  /\ gi > Len(CutKeys)
  /\ plan' = Plan(stockBoards, assignments, warnings, allUnplacedPieces, clock)
  /\ pc' = "done"
  /\ UNCHANGED <<args, gi, bi, remainingPieces, outVars, packVars, prev, clock, solverVars>>

(***************************************************************************)
(* The callers: a project's boards and pieces (each record has its own     *)
(* id), the second call of a caller that calls optimizeCuts twice, and     *)
(* the time that passes between two calls.                                 *)
(***************************************************************************)

MaxBoards == 2
MaxPieces == 2
MaxQuantity == 2
MaxClock == 1

Board(length, width, thickness, species, quantity) ==
  [length |-> length, width |-> width, thickness |-> thickness,
   species |-> species, quantity |-> quantity]

Piece(length, width, thickness, species, quantity, grainDirection) ==
  [length |-> length, width |-> width, thickness |-> thickness,
   species |-> species, quantity |-> quantity, grainDirection |-> grainDirection]

\* the records of a list get the ids 1, 2, ... (pieces also get a name)
WithIds(records) ==
  [i \in 1..Len(records) |->
     IF "grainDirection" \in DOMAIN records[i]
     THEN [id |-> i, name |-> i] @@ records[i]
     ELSE [id |-> i] @@ records[i]]

\* the lists of at most n records drawn from catalog
ListsUpTo(catalog, n) == UNION {[1..k -> catalog] : k \in 0..n}

\* boards with e inserted before position pos (pos = Len + 1 appends it)
InsertAt(list, e, pos) ==
  SubSeq(list, 1, pos - 1) \o <<e>> \o SubSeq(list, pos, Len(list))

\* boards 5 x 3 and 3 x 2 inches and pieces that fit them in one
\* orientation only, in both, or in none, over three compatibility keys
BoardCatalog ==
  {Board(40, 24, "4/4", Null, q) : q \in 1..MaxQuantity}
  \cup {Board(24, 16, "4/4", Null, 1), Board(40, 24, "1.00", Null, 1),
        Board(40, 24, "4/4", "oak", 1)}

PieceCatalog ==
  {Piece(20, 12, "4/4", Null, q, "any") : q \in 1..MaxQuantity}
  \cup {Piece(12, 30, "4/4", Null, 1, g) : g \in {"any", "length", "width"}}
  \cup {Piece(30, 8, "4/4", Null, 1, "width"), Piece(20, 12, "4/4", "oak", 1, "any"),
        Piece(48, 30, "4/4", Null, 1, "any"), Piece(16, 16, "8/4", Null, 1, "length")}

ExtraBoards ==
  {Board(24, 16, "4/4", Null, 1), Board(40, 24, "8/4", Null, 1)}

\* a 6 x 5.5 inch board and six pieces that fill it
DenseBoard == Board(48, 44, "4/4", Null, 1)

DensePieces ==
  <<Piece(28, 16, "4/4", Null, 1, "any"), Piece(32, 8, "4/4", Null, 1, "any"),
    Piece(16, 16, "4/4", Null, 1, "any"), Piece(12, 20, "4/4", Null, 1, "any"),
    Piece(8, 20, "4/4", Null, 1, "any"), Piece(16, 8, "4/4", Null, 1, "any")>>

\* the sub-lists of a list (its elements at a set of positions, in order)
SubLists(list) ==
  {SelectIdx(list, LAMBDA i : i \in S) : S \in SUBSET (1..Len(list))}

\* boards and pieces of one key that pack differently with a board more
MaxPackPieces == 3

PackBoardCatalog ==
  {Board(44, 24, "4/4", Null, 1), Board(32, 36, "4/4", Null, 1)}

PackPieceCatalog ==
  {Piece(16, 20, "4/4", Null, 1, "any"), Piece(12, 28, "4/4", Null, 1, "any"),
   Piece(36, 8, "4/4", Null, 1, "any")}

PackExtraBoards ==
  {Board(56, 16, "4/4", Null, 1), Board(56, 16, "4/4", "oak", 1)}

Kerfs == {DEFAULT_KERF}

\* calculateStockNeeded is not running
NoStockNeeded == [boardsNeeded |-> -1]

SolverIdleWith(templates) ==
  /\ stockTemplates = templates
  /\ spc = "idle"
  /\ sgi = 1
  /\ allBoards = <<>>
  /\ allBoardsByTemplate = <<>>
  /\ boardIdCounter = 0
  /\ stockTemplate = Null
  /\ low = 1
  /\ high = 0
  /\ totalBoards = 1
  /\ estimatedBoards = 1
  /\ result = NoResult
  /\ stockNeeded = NoStockNeeded

SolverIdle == SolverIdleWith(<<>>)

InitWith(boardLists, pieceLists, kerfs) ==
  /\ stockBoards \in {WithIds(l) : l \in boardLists}
  /\ cutPieces \in {WithIds(l) : l \in pieceLists}
  /\ kerf \in kerfs
  /\ pc = "idle"
  /\ gi = 1
  /\ bi = 1
  /\ remainingPieces = <<>>
  /\ assignments = <<>>
  /\ warnings = <<>>
  /\ allUnplacedPieces = <<>>
  /\ sortedPieces = <<>>
  /\ pi = 1
  /\ freeRects = <<>>
  /\ placements = <<>>
  /\ plan = NoPlan
  /\ prev = NoCall
  /\ clock = 0
  /\ SolverIdle

Init == InitWith(ListsUpTo(BoardCatalog, MaxBoards), ListsUpTo(PieceCatalog, MaxPieces), Kerfs)

InitDense == InitWith({<<>>, <<DenseBoard>>}, SubLists(DensePieces), Kerfs)

InitPack ==
  InitWith(ListsUpTo(PackBoardCatalog, MaxBoards),
           ListsUpTo(PackPieceCatalog, MaxPackPieces), Kerfs)

ThisCall == [stockBoards |-> stockBoards, cutPieces |-> cutPieces, kerf |-> kerf,
             plan |-> plan, extraAt |-> 0]

\* the caller calls optimizeCuts again with the same arguments
CallAgain ==
  /\ pc = "done"
  /\ prev = NoCall
  /\ prev' = ThisCall
  /\ pc' = "idle"
  /\ UNCHANGED <<args, gi, bi, remainingPieces, outVars, packVars, plan, clock, solverVars>>

\* every piece was placed, and the caller calls again with one more board
CallWithExtraBoard ==
  /\ pc = "done"
  /\ prev = NoCall
  /\ Len(plan.unplacedPieces) = 0
  /\ \E e \in ExtraBoards \cup PackExtraBoards, pos \in 1..(Len(stockBoards) + 1) :
       /\ stockBoards' = InsertAt(stockBoards, [id |-> Len(stockBoards) + 1] @@ e, pos)
       /\ prev' = [ThisCall EXCEPT !.extraAt = pos]
  /\ pc' = "idle"
  /\ UNCHANGED <<cutPieces, kerf, gi, bi, remainingPieces, outVars, packVars, plan, clock, solverVars>>

\* time passes between the two calls
Tick ==
  /\ pc = "idle"
  /\ prev # NoCall
  /\ clock < MaxClock
  /\ clock' = clock + 1
  /\ UNCHANGED <<args, pc, gi, bi, remainingPieces, outVars, packVars, plan, prev, solverVars>>

Next ==
  \/ Call
  \/ NoStock
  \/ BeginGroup
  \/ BeginBoard
  \/ PlacePiece
  \/ SkipPiece
  \/ EndBoard
  \/ EndGroup
  \/ Return
  \/ CallAgain
  \/ CallWithExtraBoard
  \/ Tick

Spec == Init /\ [][Next]_vars

SpecDense == InitDense /\ [][Next]_vars

SpecPack == InitPack /\ [][Next]_vars

\* boards and pieces of particular sizes: a board 96 x 8 with four pieces
\* 20 x 3; a board 24 x 6.125 and a piece 20 x 6 to be cut along the grain;
\* pieces 4 x 4, 2.125 x 7.5 and 2.625 x 6.125 whose areas differ by less
\* than 0.1 square inch; a piece of no board's species and one too large
MaxCaseBoards == 1

CaseBoardCatalog ==
  {Board(96 * Inch, 8 * Inch, "4/4", Null, 1), Board(24 * Inch, 49, "4/4", Null, 1)}

CasePieceCatalog ==
  {Piece(20 * Inch, 3 * Inch, "4/4", Null, 1, "any"),
   Piece(20 * Inch, 6 * Inch, "4/4", Null, 1, "length"),
   Piece(32, 32, "4/4", Null, 1, "any"), Piece(17, 60, "4/4", Null, 1, "any"),
   Piece(21, 49, "4/4", Null, 1, "any"),
   Piece(20, 12, "4/4", "oak", 1, "any"), Piece(100 * Inch, 9 * Inch, "4/4", Null, 1, "any")}

\* four pieces 20 x 3
ScenarioPieces == [i \in 1..4 |-> Piece(20 * Inch, 3 * Inch, "4/4", Null, 1, "any")]

\* three pieces of which no order agrees with the comparator of
\* createStripsForBoard: 2.625 x 6.125 is larger than 1.25 x 12.75 by more
\* than 0.1 square inch, and 2 x 8 is within 0.1 square inch of both
CyclePieces ==
  <<Piece(21, 49, "4/4", Null, 1, "any"), Piece(16, 64, "4/4", Null, 1, "any"),
    Piece(10, 102, "4/4", Null, 1, "any")>>

\* a board 165.25 x 10.25 and six pieces to be cut along the grain: 37.5 x 7.5,
\* three of 90 x 2.875, 12.5 x 7.375 and 36.125 x 1.25
LongBoard == Board(1322, 82, "4/4", Null, 1)

LongBoardPieces ==
  <<Piece(300, 60, "4/4", Null, 1, "length"), Piece(720, 23, "4/4", Null, 1, "length"),
    Piece(720, 23, "4/4", Null, 1, "length"), Piece(720, 23, "4/4", Null, 1, "length"),
    Piece(100, 59, "4/4", Null, 1, "length"), Piece(289, 10, "4/4", Null, 1, "length")>>

InitCases ==
  \/ InitWith(ListsUpTo(CaseBoardCatalog, MaxCaseBoards),
              ListsUpTo(CasePieceCatalog, MaxPieces) \cup {ScenarioPieces, CyclePieces},
              Kerfs)
  \/ InitWith({<<LongBoard>>}, {LongBoardPieces}, Kerfs)

SpecCases == InitCases /\ [][Next]_vars

(***************************************************************************)
(* calculateStockNeeded(cutPieces, stockTemplates, kerf)                   *)
(***************************************************************************)

\* what calculateStockNeeded has no access to
optimizerVars == <<stockBoards, cutPieces, kerf, pc, gi, bi, remainingPieces,
                   assignments, warnings, allUnplacedPieces,
                   sortedPieces, pi, freeRects, placements, plan, prev, clock>>

\* Date.now()
DateNow == clock

\* the piece groups in the order of the for ... in loop, and the pieces and
\* templates of the group the loop is at
PiecesByGroupKeys == SolverKeys(cutPieces)
SolverGroupKey == PiecesByGroupKeys[sgi]
PiecesOfKey == SolverGroupOf(cutPieces, SolverGroupKey)
TemplatesForGroup == SolverGroupOf(stockTemplates, SolverGroupKey)

\* no cut pieces or no templates: nothing is needed
ReturnNothing ==
  /\ spc = "idle"
  /\ (Len(cutPieces) = 0 \/ Len(stockTemplates) = 0)
  /\ stockNeeded' = [boardsNeeded |-> 0, boards |-> <<>>, cutPlan |-> NoPlan,
                     boardsByTemplate |-> <<>>]
  /\ spc' = "done"
  /\ UNCHANGED <<stockTemplates, sgi, allBoards, allBoardsByTemplate, boardIdCounter,
                 searchVars, optimizerVars>>

\* calculateStockNeeded is called and reaches its loop over the groups
SolveCall ==
  /\ spc = "idle"
  /\ Len(cutPieces) # 0
  /\ Len(stockTemplates) # 0
  /\ allBoards' = <<>>
  /\ allBoardsByTemplate' = <<>>
  /\ boardIdCounter' = DateNow
  /\ sgi' = 1
  /\ spc' = "groups"
  /\ UNCHANGED <<stockTemplates, searchVars, stockNeeded,
                 optimizerVars>>

\* a group without template is passed over
SkipKey ==
  /\ spc = "groups"
  /\ sgi <= Len(PiecesByGroupKeys)
  /\ Len(TemplatesForGroup) = 0
  /\ sgi' = sgi + 1
  /\ UNCHANGED <<stockTemplates, spc, allBoards, allBoardsByTemplate, boardIdCounter,
                 searchVars, stockNeeded,
                 optimizerVars>>

\* calculateStockForSingleTemplate is entered for a group with one template
BeginSingle ==
  /\ spc = "groups"
  /\ sgi <= Len(PiecesByGroupKeys)
  /\ Len(TemplatesForGroup) = 1
  /\ stockTemplate' = TemplatesForGroup[1]
  /\ low' = 1
  /\ high' = High(PiecesOfKey, TemplatesForGroup[1])
  /\ result' = NoResult
  /\ spc' = "search"
  /\ UNCHANGED <<stockTemplates, sgi, allBoards, allBoardsByTemplate, boardIdCounter,
                 totalBoards, estimatedBoards, stockNeeded,
                 optimizerVars>>

\* one iteration of the binary search; ProbeResult is the iteration once
\* the plan for mid boards is known
ProbeResult(mid, r) ==
  IF Len(r.cutPlan.unplacedPieces) = 0
  THEN /\ result' = r
       /\ high' = mid - 1
       /\ low' = low
  ELSE /\ low' = mid + 1
       /\ UNCHANGED <<result, high>>

ProbeAt(mid) ==
  ProbeResult(mid, SingleResult(PiecesOfKey, stockTemplate, mid, kerf, DateNow))

Probe ==
  /\ spc = "search"
  /\ low <= high
  /\ ProbeAt((low + high) \div 2)
  /\ UNCHANGED <<stockTemplates, spc, sgi, allBoards, allBoardsByTemplate, boardIdCounter,
                 stockTemplate, totalBoards, estimatedBoards, stockNeeded,
                 optimizerVars>>

\* the search ends; without a result, high + 1 boards are taken
SearchEnds ==
  /\ spc = "search"
  /\ low > high
  /\ result' = IF result = NoResult
               THEN SingleResult(PiecesOfKey, stockTemplate, high + 1, kerf, DateNow)
               ELSE result
  /\ spc' = "collect"
  /\ UNCHANGED <<stockTemplates, sgi, allBoards, allBoardsByTemplate, boardIdCounter,
                 stockTemplate, low, high, totalBoards, estimatedBoards, stockNeeded,
                 optimizerVars>>

\* calculateStockForMultipleTemplates is entered for a group with templates
BeginMultiple ==
  /\ spc = "groups"
  /\ sgi <= Len(PiecesByGroupKeys)
  /\ Len(TemplatesForGroup) > 1
  /\ estimatedBoards' = EstimatedBoardsMultiple(PiecesOfKey, TemplatesForGroup)
  /\ totalBoards' = 1
  /\ spc' = "totals"
  /\ UNCHANGED <<stockTemplates, sgi, allBoards, allBoardsByTemplate, boardIdCounter,
                 stockTemplate, low, high, result, stockNeeded,
                 optimizerVars>>

\* one iteration of the loop over the total number of boards; TotalResult
\* is the iteration once tryBoardDistribution has returned r
TotalResult(r) ==
  IF r # NoResult
  THEN /\ result' = r
       /\ spc' = "collect"
       /\ UNCHANGED totalBoards
  ELSE /\ totalBoards' = totalBoards + 1
       /\ UNCHANGED <<result, spc>>

TryTotal ==
  /\ spc = "totals"
  /\ totalBoards <= estimatedBoards * 3
  /\ TotalResult(TryBoardDistribution(PiecesOfKey, TemplatesForGroup, totalBoards, kerf,
                                      DateNow))
  /\ UNCHANGED <<stockTemplates, sgi, allBoards, allBoardsByTemplate, boardIdCounter,
                 stockTemplate, low, high, estimatedBoards, stockNeeded,
                 optimizerVars>>

\* no total succeeded: the first template alone
Fallback ==
  /\ spc = "totals"
  /\ totalBoards > estimatedBoards * 3
  /\ stockTemplate' = TemplatesForGroup[1]
  /\ low' = 1
  /\ high' = High(PiecesOfKey, TemplatesForGroup[1])
  /\ result' = NoResult
  /\ spc' = "search"
  /\ UNCHANGED <<stockTemplates, sgi, allBoards, allBoardsByTemplate, boardIdCounter,
                 totalBoards, estimatedBoards, stockNeeded,
                 optimizerVars>>

\* the boards of the group get their ids and the species of the key
Collect ==
  /\ spc = "collect"
  /\ allBoards' = allBoards \o
       [i \in 1..Len(result.boards) |->
          [result.boards[i] EXCEPT !.id = boardIdCounter + i - 1,
                                   !.species = ParseGroupKey(SolverGroupKey).species]]
  /\ boardIdCounter' = boardIdCounter + Len(result.boards)
  /\ allBoardsByTemplate' = allBoardsByTemplate \o result.boardsByTemplate
  /\ sgi' = sgi + 1
  /\ spc' = "groups"
  /\ UNCHANGED <<stockTemplates, searchVars, stockNeeded,
                 optimizerVars>>

\* the final plan over all boards, the consolidated boards, the return
ReturnStock ==
  /\ spc = "groups"
  /\ sgi > Len(PiecesByGroupKeys)
  /\ LET consolidatedBoards == ConsolidatedBoards(allBoards)
     IN stockNeeded' =
          [boardsNeeded |-> SumSeq([i \in 1..Len(consolidatedBoards) |->
                                      consolidatedBoards[i].quantity]),
           boards |-> consolidatedBoards,
           cutPlan |-> OptimizeCuts(allBoards, cutPieces, kerf, clock),
           boardsByTemplate |-> allBoardsByTemplate]
  /\ spc' = "done"
  /\ UNCHANGED <<stockTemplates, sgi, allBoards, allBoardsByTemplate, boardIdCounter,
                 searchVars, optimizerVars>>

SolverNext ==
  \/ ReturnNothing
  \/ SolveCall
  \/ SkipKey
  \/ BeginSingle
  \/ Probe
  \/ SearchEnds
  \/ BeginMultiple
  \/ TryTotal
  \/ Fallback
  \/ Collect
  \/ ReturnStock

\* the callers of calculateStockNeeded: templates of 3 x 3, 5 x 3 and 3 x 2
\* inches in two species, and pieces of which one, two or none fit a board
MaxTemplates == 2
MaxSolverPieces == 2
MaxCopies == 12

Template(length, width, thickness, species) ==
  [length |-> length, width |-> width, thickness |-> thickness, species |-> species]

TemplateCatalog ==
  {Template(24, 24, "4/4", Null), Template(40, 24, "4/4", Null),
   Template(24, 16, "4/4", Null), Template(40, 24, "4/4", "oak")}

SolverPieceCatalog ==
  {Piece(14, 14, "4/4", Null, q, "any") : q \in 1..2}
  \cup {Piece(20, 12, "4/4", Null, q, "any") : q \in 1..2}
  \cup {Piece(20, 12, "4/4", "oak", 1, "any"), Piece(48, 30, "4/4", Null, 1, "any"),
        Piece(16, 16, "8/4", Null, 1, "any")}

InitSolverWith(pieceLists, templateLists) ==
  /\ stockBoards = <<>>
  /\ cutPieces \in {WithIds(l) : l \in pieceLists}
  /\ kerf \in Kerfs
  /\ pc = "idle"
  /\ gi = 1
  /\ bi = 1
  /\ remainingPieces = <<>>
  /\ assignments = <<>>
  /\ warnings = <<>>
  /\ allUnplacedPieces = <<>>
  /\ sortedPieces = <<>>
  /\ pi = 1
  /\ freeRects = <<>>
  /\ placements = <<>>
  /\ plan = NoPlan
  /\ prev = NoCall
  /\ clock = 0
  /\ \E templates \in templateLists : SolverIdleWith(templates)

\* one piece record of which every instance needs a board of its own
ManyPieces ==
  {<<Piece(14, 14, "4/4", Null, q, "any")>> : q \in (MaxQuantity + 1)..MaxCopies}

\* templates of 3 x 4, 5 x 2 and again 3 x 4 inches, and four pieces that need
\* one board of each template
RepeatedTemplates ==
  <<Template(24, 32, "4/4", Null), Template(40, 16, "4/4", Null),
    Template(24, 32, "4/4", Null)>>

RepeatedTemplatePieces ==
  <<Piece(31, 12, "4/4", Null, 1, "any"), Piece(31, 10, "4/4", Null, 1, "any"),
    Piece(24, 15, "4/4", Null, 1, "any"), Piece(22, 16, "4/4", Null, 1, "any")>>

InitSolver ==
  \/ InitSolverWith(ListsUpTo(SolverPieceCatalog, MaxSolverPieces) \cup ManyPieces,
                    ListsUpTo(TemplateCatalog, MaxTemplates))
  \/ InitSolverWith({RepeatedTemplatePieces}, {RepeatedTemplates})

SpecSolver == InitSolver /\ [][SolverNext]_vars

\* a project for which calculateStockNeeded and then optimizeCuts are called:
\* boards, templates, pieces of equal area, a piece too large for every
\* board and a piece no board or template has the thickness of
MaxFrameBoards == 1

FrameBoardCatalog == {Board(40, 24, "4/4", Null, 1), Board(24, 16, "4/4", Null, 1)}

FramePieceCatalog ==
  {Piece(20, 12, "4/4", Null, 1, "any"), Piece(30, 8, "4/4", Null, 1, "width"),
   Piece(48, 30, "4/4", Null, 1, "any"), Piece(16, 16, "8/4", Null, 1, "length")}

FrameTemplateCatalog == {Template(40, 24, "4/4", Null), Template(24, 16, "4/4", Null)}

InitFrame ==
  /\ stockBoards \in {WithIds(l) : l \in ListsUpTo(FrameBoardCatalog, MaxFrameBoards)}
  /\ cutPieces \in {WithIds(l) : l \in ListsUpTo(FramePieceCatalog, MaxPieces)}
  /\ kerf \in Kerfs
  /\ pc = "idle"
  /\ gi = 1
  /\ bi = 1
  /\ remainingPieces = <<>>
  /\ assignments = <<>>
  /\ warnings = <<>>
  /\ allUnplacedPieces = <<>>
  /\ sortedPieces = <<>>
  /\ pi = 1
  /\ freeRects = <<>>
  /\ placements = <<>>
  /\ plan = NoPlan
  /\ prev = NoCall
  /\ clock = 0
  /\ \E templates \in ListsUpTo(FrameTemplateCatalog, MaxTemplates) : SolverIdleWith(templates)

\* optimizeCuts is called once the stock calculation has returned
CallAfterStock ==
  /\ spc = "done"
  /\ Call

FrameNext ==
  \/ CallAfterStock
  \/ NoStock
  \/ BeginGroup
  \/ BeginBoard
  \/ PlacePiece
  \/ SkipPiece
  \/ EndBoard
  \/ EndGroup
  \/ Return
  \/ CallAgain
  \/ CallWithExtraBoard
  \/ Tick
  \/ ReturnNothing
  \/ SolveCall
  \/ SkipKey
  \/ BeginSingle
  \/ Probe
  \/ SearchEnds
  \/ BeginMultiple
  \/ TryTotal
  \/ Fallback
  \/ Collect
  \/ ReturnStock

SpecFrame == InitFrame /\ [][FrameNext]_vars

(***************************************************************************)
(* Properties                                                              *)
(***************************************************************************)

Returned == pc = "done"

\* the plan a finished call returned is the plan OptimizeCuts computes
SameAsFunction == Returned => plan = OptimizeCuts(stockBoards, cutPieces, kerf, plan.generatedAt)

\* createStripsForBoard is at its return statement
PackReturns == pc = "pack" /\ pi > Len(sortedPieces)

IdsOf(instances) == {instances[i].uniqueId : i \in 1..Len(instances)}

\* the cuts of a list of assignments, as pairs <<assignment, cut>>
CutsOf(asgs) ==
  UNION {{<<asgs[a], asgs[a].cuts[c]>> : c \in 1..Len(asgs[a].cuts)} : a \in 1..Len(asgs)}

\* the piece record a cut was made for
PieceOfCut(cut) == CHOOSE p \in {cutPieces[i] : i \in 1..Len(cutPieces)} : p.id = cut.cutPieceId

\* a species, null read as "unspecified"
ReadSpecies(species) == IF species = Null THEN "unspecified" ELSE species

SameStock(a, b) ==
  a.thickness = b.thickness /\ ReadSpecies(a.species) = ReadSpecies(b.species)

HasStock(p) == \E i \in 1..Len(stockBoards) : SameStock(stockBoards[i], p)

CountIn(seq, Holds(_)) == Cardinality({i \in 1..Len(seq) : Holds(seq[i])})

\* C1: when a createStripsForBoard call on pieces with pairwise distinct
\* uniqueIds returns, the ids of the placed pieces and the ids of the returned
\* unplacedPieces are disjoint, their union is the set of the input ids, and
\* no piece is counted twice or lost.
PartitionInvariant ==
  (PackReturns /\ Cardinality(IdsOf(remainingPieces)) = Len(remainingPieces)) =>
    LET unplaced == UnplacedPieces(sortedPieces, placements)
    IN /\ PlacedPieceIds(placements) \cap IdsOf(unplaced) = {}
       /\ PlacedPieceIds(placements) \cup IdsOf(unplaced) = IdsOf(remainingPieces)
       /\ Cardinality(PlacedPieceIds(placements)) = Len(placements)
       /\ Len(placements) + Len(unplaced) = Len(remainingPieces)

\* a call returns with one instance of a record placed and the other unplaced
PartitionWitness ==
  /\ PackReturns
  /\ \E i \in 1..Len(placements), j \in 1..Len(sortedPieces) :
       /\ sortedPieces[j].uniqueId \notin PlacedPieceIds(placements)
       /\ sortedPieces[j].originalId = placements[i].piece.originalId

\* a.x + a.length + kerf <= b.x, up to the 0.001 epsilon
Clears(aStart, aSize, bStart) == LeqEps(aStart + aSize + kerf, bStart)

\* C2: any two distinct cuts of one assignment are separated by at least
\* kerf along x or along y (up to the 0.001 epsilon).
KerfSeparation ==
  \A a \in 1..Len(assignments) : \A i, j \in 1..Len(assignments[a].cuts) :
     LET c == assignments[a].cuts[i]
         d == assignments[a].cuts[j]
     IN i # j =>
          \/ Clears(c.x, c.length, d.x)
          \/ Clears(d.x, d.length, c.x)
          \/ Clears(c.y, c.width, d.y)
          \/ Clears(d.y, d.width, c.y)

\* C3: every cut of every assignment lies inside its board (up to the 0.001
\* epsilon), rotated or not.
Containment ==
  \A ac \in CutsOf(assignments) :
     /\ 0 <= ac[2].x
     /\ 0 <= ac[2].y
     /\ LeqEps(ac[2].x + ac[2].length, ac[1].length)
     /\ LeqEps(ac[2].y + ac[2].width, ac[1].width)

\* a plan with a rotated cut and an unrotated cut
ContainmentWitness ==
  /\ Returned
  /\ \E ac \in CutsOf(plan.assignments) : ac[2].rotated
  /\ \E ac \in CutsOf(plan.assignments) : ~ac[2].rotated

IsSecondCall == Returned /\ prev # NoCall

ExtraBoardCall ==
  IsSecondCall /\ prev.extraAt > 0 /\ Len(prev.plan.unplacedPieces) = 0

\* C5 as stated: when every piece was placed, the call with one more board,
\* inserted anywhere, places every piece too.
ExtraBoardAnywhere ==
  ExtraBoardCall => Len(plan.unplacedPieces) = 0

ExtraBoardIsLastOfKey ==
  \A j \in (prev.extraAt + 1)..Len(stockBoards) :
     ~SameStock(stockBoards[j], stockBoards[prev.extraAt])

\* C5: when every piece was placed, the call with one more board, inserted
\* after every board of its compatibility key, places every piece too.
ExtraBoardAfterItsKey ==
  (ExtraBoardCall /\ ExtraBoardIsLastOfKey) => Len(plan.unplacedPieces) = 0

\* the extra board followed two boards of its key, which pieces have
ExtraBoardWitness ==
  /\ ExtraBoardCall
  /\ ExtraBoardIsLastOfKey
  /\ prev.extraAt = 3
  /\ \A j \in 1..2 : SameStock(stockBoards[j], stockBoards[3])
  /\ Len(plan.assignments) = 2
  /\ Len(cutPieces) = 3

\* C6: every returned plan has an efficiency that is a number from 0 to 100
\* and a waste that is at least 0.
EfficiencyBounds ==
  Returned =>
    /\ plan.efficiency.den > 0
    /\ 0 <= plan.efficiency.num
    /\ plan.efficiency.num <= 100 * plan.efficiency.den
    /\ plan.waste >= 0

\* a plan for pieces and no board at all
EfficiencyWitness ==
  /\ Returned
  /\ Len(stockBoards) = 0
  /\ Len(cutPieces) > 0
  /\ Len(plan.assignments) = 0

\* C7: each cut is of a piece whose thickness string is the board's and
\* whose species (null read as "unspecified") is the board's.
CutsMatchStock ==
  \A ac \in CutsOf(assignments) : SameStock(PieceOfCut(ac[2]), ac[1])

\* a plan with a cut, in which a "4/4" piece that fits the only other board,
\* of thickness "1.00", stays unplaced
CutsMatchStockWitness ==
  /\ Returned
  /\ Len(plan.assignments) = 1
  /\ Len(stockBoards) = 2
  /\ \E i \in 1..2 : stockBoards[i].thickness = "1.00"
  /\ \E i \in 1..Len(plan.unplacedPieces) :
       /\ plan.unplacedPieces[i].thickness = "4/4"
       /\ plan.unplacedPieces[i].species = Null
       /\ plan.unplacedPieces[i].length = 20

\* C8: a cut of a piece with grainDirection 'length' is not rotated, and a
\* cut of a piece with grainDirection 'width' is rotated.
GrainRespected ==
  \A ac \in CutsOf(assignments) :
     /\ PieceOfCut(ac[2]).grainDirection = "length" => ~ac[2].rotated
     /\ PieceOfCut(ac[2]).grainDirection = "width" => ac[2].rotated

\* a 'length' piece that fits an empty board of its key only when rotated is
\* unplaced, with no cut made
GrainWitness ==
  /\ Returned
  /\ Len(plan.assignments) = 0
  /\ \E i \in 1..Len(plan.unplacedPieces), b \in 1..Len(stockBoards) :
       LET u == plan.unplacedPieces[i]
       IN /\ u.grainDirection = "length"
          /\ SameStock(u, stockBoards[b])
          /\ u.width + kerf <= stockBoards[b].length
          /\ u.length + kerf <= stockBoards[b].width
          /\ u.width + kerf > stockBoards[b].width

\* the piece instances of the call whose key no board has
WithoutStock == SelectSeq(ExpandCutPieces(cutPieces), LAMBDA p : ~HasStock(p))

\* C9: for a piece group whose key no board has, no instance is cut, every
\* instance is in unplacedPieces, and the group has exactly one warning, 'No
\* stock boards with thickness <t> (<species>) available', the species part
\* left out when unspecified.
NoStockReported ==
  Returned =>
    \A g \in 1..Len(WithoutStock) :
       LET p == WithoutStock[g]
           InGroup(w) == /\ w.thickness = p.thickness
                         /\ w.speciesLabel = (IF p.species = Null THEN "" ELSE p.species)
       IN /\ \A ac \in CutsOf(plan.assignments) :
               <<ac[2].cutPieceId, ac[2].cutPieceIndex>> # p.uniqueId
          /\ CountIn(plan.unplacedPieces, LAMBDA u : u.uniqueId = p.uniqueId) = 1
          /\ CountIn(plan.warnings, InGroup) = 1
          /\ CountIn(plan.warnings, LAMBDA w :
                InGroup(w) /\ w.text = "No stock boards with thickness") = 1

\* a plan for an empty board list and two piece groups
NoStockWitness ==
  /\ Returned
  /\ Len(stockBoards) = 0
  /\ Len(plan.warnings) = 2
  /\ Len(plan.unplacedPieces) > 2

\* the piece instances of a group with stock that no assignment cuts
LeftOver ==
  SelectSeq(ExpandCutPieces(cutPieces), LAMBDA p :
     /\ HasStock(p)
     /\ \A ac \in CutsOf(plan.assignments) :
          <<ac[2].cutPieceId, ac[2].cutPieceIndex>> # p.uniqueId)

NoStockGroups ==
  {<<p.thickness, ReadSpecies(p.species)>> : p \in {WithoutStock[i] : i \in 1..Len(WithoutStock)}}

\* C10: every instance left over after the boards of its group appears in
\* unplacedPieces once and has one warning naming it; the number of warnings
\* is the number of groups without stock plus the number of left-over
\* instances; warnings is empty exactly when unplacedPieces is.
LeftOverReported ==
  Returned =>
    /\ \A g \in 1..Len(LeftOver) :
         LET p == LeftOver[g]
             Names(w) == /\ w.text = "Could not fit"
                         /\ w.name = p.name
                         /\ w.length = p.length
                         /\ w.width = p.width
                         /\ w.thickness = p.thickness
         IN /\ CountIn(plan.unplacedPieces, LAMBDA u : u.uniqueId = p.uniqueId) = 1
            /\ CountIn(plan.warnings, Names) =
                 CountIn(LeftOver, LAMBDA q : q.originalId = p.originalId)
    /\ Len(plan.warnings) = Cardinality(NoStockGroups) + Len(LeftOver)
    /\ (Len(plan.warnings) = 0) <=> (Len(plan.unplacedPieces) = 0)

\* a piece larger than every board and an instance that found no room are
\* left over in one group
LeftOverWitness ==
  /\ Returned
  /\ Len(stockBoards) > 0
  /\ Len(plan.assignments) > 0
  /\ Len(LeftOver) = 2
  /\ \E g \in 1..Len(LeftOver) : \A b \in 1..Len(stockBoards) :
       /\ LeftOver[g].length > stockBoards[b].length
       /\ LeftOver[g].width > stockBoards[b].width

(***************************************************************************)
(* What calculateStockNeeded returns                                       *)
(***************************************************************************)

\* the instances of the pieces of the group the solver is at
InstancesOfKey == Len(ExpandCutPieces(PiecesOfKey))

\* optimizeCuts on n copies of the template leaves no piece unplaced
PacksOn(template, pieces, n) ==
  Len(OptimizeCuts(CopiesOf(template, n, 0), pieces, kerf, 0).unplacedPieces) = 0

\* the search for a group with exactly one template has ended
SingleSearched == spc = "collect" /\ Len(TemplatesForGroup) = 1

\* C11: for a group with exactly one template of which some number of copies
\* takes every piece, the board count the search ends with is the smallest
\* n >= 1 for which optimizeCuts on n copies of the template leaves no piece
\* of the group unplaced.
MinimalCount ==
  (/\ SingleSearched
   /\ \E n \in 1..InstancesOfKey : PacksOn(stockTemplate, PiecesOfKey, n)) =>
     /\ PacksOn(stockTemplate, PiecesOfKey, result.boardsNeeded)
     /\ \A m \in 1..(result.boardsNeeded - 1) : ~PacksOn(stockTemplate, PiecesOfKey, m)

\* calculateStockNeeded has returned
StockReturned == spc = "done"

\* every piece of the cut list has a template of its key, and a board of
\* one of them takes the piece when it is the only one
EveryPieceHasRoom ==
  \A i \in 1..Len(cutPieces) :
     \E t \in 1..Len(stockTemplates) :
        /\ SolverKeyOf(stockTemplates[t]) = SolverKeyOf(cutPieces[i])
        /\ PacksOn(stockTemplates[t], <<[cutPieces[i] EXCEPT !.quantity = 1]>>, 1)

\* C12: when the cut list is not empty and every piece has a template of its
\* key with room for it, the returned cutPlan has an empty unplacedPieces
\* list, also when the binary search ended without a result.
EveryPiecePlaced ==
  (StockReturned /\ Len(cutPieces) > 0 /\ EveryPieceHasRoom) =>
     Len(stockNeeded.cutPlan.unplacedPieces) = 0

\* the loop over the totals of a group with several templates has ended
\* with a result
MultiSearched ==
  /\ spc = "collect"
  /\ Len(TemplatesForGroup) > 1
  /\ totalBoards <= estimatedBoards * 3

\* the tuples of k non-negative integers that sum to t
Splits(k, t) == {d \in [1..k -> 0..t] : SumSeq(d) = t}

\* the plan of optimizeCuts for the boards of a split
PlanOfSplit(d) ==
  OptimizeCuts(BoardsOfDistribution(TemplatesForGroup, d, 0), PiecesOfKey, kerf, 0)

SplitPacks(d) == Len(PlanOfSplit(d).unplacedPieces) = 0

\* the number of boards of template t (counted from 1) among boards
CountOfTemplate(boards, t) ==
  Cardinality({i \in 1..Len(boards) : boards[i].templateIndex = t - 1})

\* C13: for a group with two or more templates the result has totalBoards
\* boards, the smallest total t >= 1 of which some split over the templates
\* leaves no piece unplaced; the result is the plan of one of the splits of
\* t that leave no piece unplaced, none of which has a greater efficiency;
\* the loop over the totals has stopped at t.
MinimalSplit ==
  MultiSearched =>
    /\ result.boardsNeeded = totalBoards
    /\ \E d \in Splits(Len(TemplatesForGroup), totalBoards) :
         /\ SplitPacks(d)
         /\ \A t \in 1..Len(TemplatesForGroup) : CountOfTemplate(result.boards, t) = d[t]
         /\ result.cutPlan = PlanOfSplit(d)
    /\ \A e \in Splits(Len(TemplatesForGroup), totalBoards) :
         SplitPacks(e) => ~RatioGt(PlanOfSplit(e).efficiency, result.cutPlan.efficiency)
    /\ \A t \in 1..(totalBoards - 1) : \A e \in Splits(Len(TemplatesForGroup), t) :
         ~SplitPacks(e)

\* two boards are needed, and of the splits of two boards that leave no
\* piece unplaced one is less efficient than another
MinimalSplitWitness ==
  /\ MultiSearched
  /\ totalBoards >= 2
  /\ \E d, e \in Splits(Len(TemplatesForGroup), totalBoards) :
       /\ SplitPacks(d)
       /\ SplitPacks(e)
       /\ RatioGt(PlanOfSplit(d).efficiency, PlanOfSplit(e).efficiency)

\* calculateStockNeeded has returned a result with a plan
StockPlanned == StockReturned /\ stockNeeded.cutPlan # NoPlan

\* C14: every assignment of the returned cutPlan has the id of a record of
\* the returned boards as its stockBoardId.
AssignmentsOfReturnedBoards ==
  StockPlanned =>
    \A a \in 1..Len(stockNeeded.cutPlan.assignments) :
       \E b \in 1..Len(stockNeeded.boards) :
          stockNeeded.boards[b].id = stockNeeded.cutPlan.assignments[a].stockBoardId

\* the values by which the boards of a result are told apart
StockValues(board) == <<board.length, board.width, board.thickness, board.species>>

\* C15: no two records of the returned boards have the same length, width,
\* thickness and species; the quantity of a record is the number of generated
\* boards with its values; boardsNeeded is the sum of the quantities, the
\* number of boards the searches selected and the sum of the counts in
\* boardsByTemplate.
Consolidated ==
  StockPlanned =>
    /\ \A i, j \in 1..Len(stockNeeded.boards) :
         i # j => StockValues(stockNeeded.boards[i]) # StockValues(stockNeeded.boards[j])
    /\ \A i \in 1..Len(stockNeeded.boards) :
         stockNeeded.boards[i].quantity =
           Cardinality({b \in 1..Len(allBoards) :
                          StockValues(allBoards[b]) = StockValues(stockNeeded.boards[i])})
    /\ stockNeeded.boardsNeeded =
         SumSeq([i \in 1..Len(stockNeeded.boards) |-> stockNeeded.boards[i].quantity])
    /\ stockNeeded.boardsNeeded = Len(allBoards)
    /\ stockNeeded.boardsNeeded =
         SumSeq([i \in 1..Len(stockNeeded.boardsByTemplate) |->
                   stockNeeded.boardsByTemplate[i].count])

\* boards of two kinds were selected, of one kind more than one
ConsolidatedWitness ==
  /\ StockPlanned
  /\ Len(stockNeeded.boards) >= 2
  /\ \E i \in 1..Len(stockNeeded.boards) : stockNeeded.boards[i].quantity >= 2

(***************************************************************************)
(* Arguments                                                               *)
(***************************************************************************)

EdgeLoss ==
  \A ac \in CutsOf(assignments) :
     ~ac[2].rotated =>
        /\ ac[1].width >= ac[2].width + 2 * kerf
        /\ ac[1].length >= ac[2].length + 2 * kerf

\* the call of Scenario 1: one board 96 x 8 and four pieces 20 x 3, all of
\* thickness 4/4 and quantity 1, with the default kerf
ScenarioCall ==
  /\ stockBoards = WithIds(<<Board(96 * Inch, 8 * Inch, "4/4", Null, 1)>>)
  /\ cutPieces = WithIds(ScenarioPieces)
  /\ kerf = DEFAULT_KERF

\* C18: for the call of Scenario 1 optimizeCuts returns one assignment with
\* four cuts, one of each piece, and an empty unplacedPieces list.
ScenarioOne ==
  (Returned /\ ScenarioCall) =>
     /\ Len(plan.assignments) = 1
     /\ Len(plan.assignments[1].cuts) = 4
     /\ {plan.assignments[1].cuts[c].cutPieceId : c \in 1..4} = 1..4
     /\ plan.assignments[1].stockBoardId = 1
     /\ Len(plan.unplacedPieces) = 0

\* the call of Scenario 1 has returned
ScenarioOneWitness ==
  /\ Returned
  /\ ScenarioCall
  /\ Len(plan.assignments) > 0

(***************************************************************************)
(* The assumption of the binary search                                     *)
(***************************************************************************)

\* the board counts up to two more than there are pieces for which
\* optimizeCuts on that many copies of the template leaves no piece unplaced
PackingCounts(template, pieces) ==
  {n \in 1..(Len(ExpandCutPieces(pieces)) + 2) : PacksOn(template, pieces, n)}

\* the binary search for one template is under way
Searching == spc = "search"

\* C19: for the template and the pieces of a binary search, if optimizeCuts
\* on n copies of the template leaves no piece unplaced, it leaves no piece
\* unplaced on any greater number of copies.
Monotone ==
  Searching =>
    LET packing == PackingCounts(stockTemplate, PiecesOfKey)
    IN \A n \in packing :
          \A m \in (n + 1)..(Len(ExpandCutPieces(PiecesOfKey)) + 2) : m \in packing

\* some number of copies leaves a piece unplaced and one more copy does not
MonotoneWitness ==
  /\ Searching
  /\ \E n \in 2..(InstancesOfKey + 1) :
        /\ ~PacksOn(stockTemplate, PiecesOfKey, n)
        /\ PacksOn(stockTemplate, PiecesOfKey, n + 1)

(***************************************************************************)
(* The order of the attempts of createStripsForBoard                       *)
(***************************************************************************)

\* createStripsForBoard is in its placing loop: the pieces are attempted in
\* the order of sortedPieces
Attempting == pc = "pack"

AreaOf(p) == p.effectiveLength * p.effectiveWidth

MaxDimOf(p) == Max(p.effectiveLength, p.effectiveWidth)

\* the areas of two pieces differ by at most 0.1 square inch
NearArea(p, q) == Abs(AreaOf(p) - AreaOf(q)) * 10 <= Inch * Inch

\* among the pieces, areas within 0.1 square inch of a common area are
\* within 0.1 square inch of each other
NearAreaTransitive(pieces) ==
  \A i, j, k \in 1..Len(pieces) :
     (NearArea(pieces[i], pieces[j]) /\ NearArea(pieces[j], pieces[k]))
        => NearArea(pieces[i], pieces[k])

FittingCandidates(rects, k, p) ==
  {c \in {Candidate(rects[i], i, k, p.effectiveLength, p.effectiveWidth, FALSE) :
            i \in 1..Len(rects)} : TryNormal(p.grainDirection) /\ c.fits}
  \cup
  {c \in {Candidate(rects[i], i, k, p.effectiveWidth, p.effectiveLength, TRUE) :
            i \in 1..Len(rects)} : TryRotated(p.grainDirection) /\ c.fits}

\* the lexicographic order of tuples of four numbers
LexLeq(a, b) ==
  \/ a[1] < b[1]
  \/ a[1] = b[1] /\ a[2] < b[2]
  \/ a[1] = b[1] /\ a[2] = b[2] /\ a[3] < b[3]
  \/ a[1] = b[1] /\ a[2] = b[2] /\ a[3] = b[3] /\ a[4] <= b[4]

ScoreOf(rects, c) == <<c.shortSide, c.longSide, rects[c.rect].y, rects[c.rect].x>>

\* C21: the free rectangle and orientation findBestFit chooses for a piece
\* is a lexicographic minimum of (shortSide, longSide, y, x) over all free
\* rectangles and allowed orientations in which the piece fits, and
\* findBestFit returns null only if there is no such rectangle
BestFitLexicographic ==
  (pc = "pack" /\ pi <= Len(sortedPieces)) =>
    LET cs == FittingCandidates(freeRects, kerf, sortedPieces[pi])
    IN /\ CurrentFit.fits <=> cs # {}
       /\ CurrentFit.fits =>
            \A c \in cs : LexLeq(ScoreOf(freeRects, CurrentFit), ScoreOf(freeRects, c))

(***************************************************************************)
(* The kerf on the left and bottom edges of the board                      *)
(***************************************************************************)

\* the placement a step of the placing loop has pushed
LastPlacement == placements'[Len(placements')]

\* C22: a piece placed into a free rectangle that touches the left edge of
\* the board is placed at x = rect.x + kerf, into one that touches the bottom
\* edge at y = rect.y + kerf, and otherwise at the origin of the rectangle;
\* a piece placed into an edge rectangle is no larger than the rectangle less
\* the kerf on that axis; every cut has x >= kerf and y >= kerf.
EdgeKerf ==
  [][/\ (pc = "pack" /\ Len(placements') = Len(placements) + 1) =>
          LET rect == freeRects[CurrentFit.rect]
          IN /\ LastPlacement.x = IF rect.x = 0 THEN rect.x + kerf ELSE rect.x
             /\ LastPlacement.y = IF rect.y = 0 THEN rect.y + kerf ELSE rect.y
             /\ rect.x = 0 => LastPlacement.placedLength <= rect.width - kerf
             /\ rect.y = 0 => LastPlacement.placedWidth <= rect.height - kerf
     /\ \A ac \in CutsOf(assignments') : ac[2].x >= kerf /\ ac[2].y >= kerf]_vars

\* a board has got a cut out of the corner rectangle, a cut out of a
\* rectangle on the bottom edge only and a cut out of an interior rectangle
EdgeKerfWitness ==
  \E a \in 1..Len(assignments) : \E c, d, e \in 1..Len(assignments[a].cuts) :
     /\ assignments[a].cuts[c].x = kerf /\ assignments[a].cuts[c].y = kerf
     /\ assignments[a].cuts[d].x > kerf /\ assignments[a].cuts[d].y = kerf
     /\ assignments[a].cuts[e].x > kerf /\ assignments[a].cuts[e].y > kerf

(***************************************************************************)
(* The remainders of a clipped free rectangle                              *)
(***************************************************************************)

\* rectangle r lies within one of the rectangles of rects
CoveredBy(r, rects) ==
  \E i \in 1..Len(rects) :
     /\ rects[i].x <= r.x
     /\ rects[i].y <= r.y
     /\ r.x + r.width <= rects[i].x + rects[i].width
     /\ r.y + r.height <= rects[i].y + rects[i].height

\* the parts of free rectangle r to the left and to the right of the placed
\* piece p with its trailing kerf
WidthRemainders(r, p, k) ==
  LET rightStart == Max(r.x, p.x + p.placedLength + k)
  IN {[x |-> r.x, y |-> r.y, width |-> p.x - r.x - k, height |-> r.height],
      [x |-> rightStart, y |-> r.y,
       width |-> r.x + r.width - rightStart, height |-> r.height]}

\* the parts of r below and above p with its trailing kerf
HeightRemainders(r, p, k) ==
  LET topStart == Max(r.y, p.y + p.placedWidth + k)
  IN {[x |-> r.x, y |-> r.y, width |-> r.width, height |-> p.y - r.y - k],
      [x |-> r.x, y |-> topStart,
       width |-> r.width, height |-> r.y + r.height - topStart]}

\* the remainders that are at least 1 inch in the dimension the clip has cut
RemaindersFrom(r, p, k) ==
  {q \in WidthRemainders(r, p, k) : q.width >= Inch}
  \cup {q \in HeightRemainders(r, p, k) : q.height >= Inch}

\* free rectangle r overlaps the placed piece p with its trailing kerf
Overlaps(r, p, k) ==
  /\ Max(r.x, p.x) < Min(r.x + r.width, p.x + p.placedLength + k)
  /\ Max(r.y, p.y) < Min(r.y + r.height, p.y + p.placedWidth + k)

\* C23: when a placement clips a free rectangle, every remainder to the
\* left, right, bottom or top that is 1 inch or more in its governing
\* dimension is kept: it is free space after the step.
RemaindersKept ==
  [][(pc = "pack" /\ Len(placements') = Len(placements) + 1) =>
        \A i \in 1..Len(freeRects) :
           Overlaps(freeRects[i], LastPlacement, kerf) =>
              \A q \in RemaindersFrom(freeRects[i], LastPlacement, kerf) :
                 CoveredBy(q, freeRects')]_vars

(***************************************************************************)
(* The free list after a placement step                                    *)
(***************************************************************************)

\* rectangle a lies within rectangle b (an equal rectangle included)
Within(a, b) ==
  /\ b.x <= a.x
  /\ b.y <= a.y
  /\ a.x + a.width <= b.x + b.width
  /\ a.y + a.height <= b.y + b.height

\* rectangles a and b share a full edge: a ends where b begins along one
\* axis and both span the same interval along the other
Abut(a, b) ==
  \/ a.y = b.y /\ a.height = b.height /\ a.x + a.width = b.x
  \/ a.x = b.x /\ a.width = b.width /\ a.y + a.height = b.y

RECURSIVE FreeRectsBefore(_)
FreeRectsBefore(n) ==
  IF n = 1
  THEN <<[x |-> 0, y |-> 0, width |-> AvailableStock[bi].length,
          height |-> AvailableStock[bi].width]>>
  ELSE FreeRectsAfter(FreeRectsBefore(n - 1), placements[n - 1].x, placements[n - 1].y,
                      placements[n - 1].placedLength, placements[n - 1].placedWidth, kerf)

\* that list clipped against the n-th placement
ClippedAt(n) ==
  ClipRectsAgainstPlacement(FreeRectsBefore(n), placements[n].x, placements[n].y,
                            placements[n].placedLength, placements[n].placedWidth, kerf)

InFreeRect(i, j) ==
  \E n \in 1..Len(freeRects) :
     /\ freeRects[n].x <= i /\ i < freeRects[n].x + freeRects[n].width
     /\ freeRects[n].y <= j /\ j < freeRects[n].y + freeRects[n].height

\* the point (i, j) lies in a placed piece or within one kerf of it
InPlacedPiece(i, j) ==
  \E n \in 1..Len(placements) :
     /\ placements[n].x - kerf <= i /\ i < placements[n].x + placements[n].placedLength + kerf
     /\ placements[n].y - kerf <= j /\ j < placements[n].y + placements[n].placedWidth + kerf

\* free rectangle r meets the placed piece p or the kerf after it
Meets(r, p) ==
  /\ Max(r.x, p.x) < Min(r.x + r.width, p.x + p.placedLength + kerf)
  /\ Max(r.y, p.y) < Min(r.y + r.height, p.y + p.placedWidth + kerf)

\* the remainders the clip of free rectangle r against placement p drops:
\* those of at most 1 inch in the dimension the clip has cut
DroppedFrom(r, p, k) ==
  {q \in WidthRemainders(r, p, k) : q.width <= Inch}
  \cup {q \in HeightRemainders(r, p, k) : q.height <= Inch}

\* the remainders dropped by the clips of the placements made so far
Dropped ==
  UNION {UNION {DroppedFrom(FreeRectsBefore(n)[i], placements[n], kerf) :
                  i \in {i \in 1..Len(FreeRectsBefore(n)) :
                           Overlaps(FreeRectsBefore(n)[i], placements[n], kerf)}} :
         n \in 1..Len(placements)}

\* the point (i, j) lies in one of the rectangles of the set
InOneOf(i, j, rects) ==
  \E q \in rects : /\ q.x <= i /\ i < q.x + q.width
                    /\ q.y <= j /\ j < q.y + q.height

\* the points of the board at which a free rectangle, a placed piece with
\* its kerf or a dropped remainder begins or ends along both axes: the board
\* is covered if and only if these points are
Corners(dropped) ==
  LET xs == {0} \cup {freeRects[n].x : n \in 1..Len(freeRects)}
                \cup {freeRects[n].x + freeRects[n].width : n \in 1..Len(freeRects)}
                \cup {placements[n].x - kerf : n \in 1..Len(placements)}
                \cup {placements[n].x + placements[n].placedLength + kerf :
                        n \in 1..Len(placements)}
                \cup {q.x : q \in dropped} \cup {q.x + q.width : q \in dropped}
      ys == {0} \cup {freeRects[n].y : n \in 1..Len(freeRects)}
                \cup {freeRects[n].y + freeRects[n].height : n \in 1..Len(freeRects)}
                \cup {placements[n].y - kerf : n \in 1..Len(placements)}
                \cup {placements[n].y + placements[n].placedWidth + kerf :
                        n \in 1..Len(placements)}
                \cup {q.y : q \in dropped} \cup {q.y + q.height : q \in dropped}
  IN {c \in xs \X ys : /\ 0 <= c[1] /\ c[1] < AvailableStock[bi].length
                        /\ 0 <= c[2] /\ c[2] < AvailableStock[bi].width}

\* no free rectangle meets a placed piece or the kerf after it
FreeRectsClear ==
  \A n \in 1..Len(freeRects) : \A m \in 1..Len(placements) :
     ~Meets(freeRects[n], placements[m])

\* C25: at every point of a run of the placing loop the free rectangles
\* and the placed pieces, each with the kerf it has consumed, cover the
\* board: every point of the board lies in a free rectangle or in a placed
\* piece or its kerf, and no free rectangle meets a placed piece or its kerf.
BoardCovered ==
  pc = "pack" =>
    /\ \A c \in Corners(Dropped) : InFreeRect(c[1], c[2]) \/ InPlacedPiece(c[1], c[2])
    /\ FreeRectsClear

\* C25, amended: every point of the board lies in a free rectangle, in a
\* placed piece or its kerf, or in a remainder of at most 1 inch that a clip
\* has dropped, and no free rectangle meets a placed piece or the kerf
\* after it.
BoardCoveredButDropped ==
  pc = "pack" =>
    /\ \A c \in Corners(Dropped) :
          \/ InFreeRect(c[1], c[2])
          \/ InPlacedPiece(c[1], c[2])
          \/ InOneOf(c[1], c[2], Dropped)
    /\ FreeRectsClear

\* pieces were placed, free rectangles are left, and a point of the board
\* lies only in a remainder that a clip has dropped
BoardCoveredWitness ==
  /\ pc = "pack"
  /\ Len(placements) >= 2
  /\ Len(freeRects) >= 2
  /\ \E c \in Corners(Dropped) :
        /\ InOneOf(c[1], c[2], Dropped)
        /\ ~InFreeRect(c[1], c[2])
        /\ ~InPlacedPiece(c[1], c[2])

(***************************************************************************)
(* The boards of a group are tried in order                                *)
(***************************************************************************)

\* the pieces cut so far from the boards of the group being processed
CutFromGroup(asgs) ==
  {<<ac[2].cutPieceId, ac[2].cutPieceIndex>> :
     ac \in {bc \in CutsOf(asgs) : bc[1].uniqueId \in IdsOf(AvailableStock)}}

\* C26: within a group the boards are tried in their order, each once: the
\* board index moves only from a board that was tried to the next one; the
\* pieces offered to a board are the pieces of the group that no earlier
\* board has got a cut of; a board gets an assignment exactly when it has
\* placed a piece, so every assignment has a cut and no board instance has
\* two assignments; once no piece remains no board is tried or assigned.
BoardsInOrder ==
  [][/\ (pc = "boards" /\ pc' = "pack") =>
          /\ bi' = bi
          /\ bi <= Len(AvailableStock)
          /\ Len(remainingPieces) > 0
          /\ \A a \in 1..Len(assignments) :
                assignments[a].uniqueId # AvailableStock[bi].uniqueId
          /\ IdsOf(sortedPieces') = IdsOf(PiecesForGroup) \ CutFromGroup(assignments)
     /\ (pc = "pack" /\ pc' = "pack") => bi' = bi
     /\ (pc = "pack" /\ pc' = "boards") =>
          /\ bi' = bi + 1
          /\ Len(placements) = 0 => assignments' = assignments
          /\ Len(placements) > 0 =>
                /\ Len(assignments') = Len(assignments) + 1
                /\ SubSeq(assignments', 1, Len(assignments)) = assignments
                /\ assignments'[Len(assignments')].uniqueId = AvailableStock[bi].uniqueId
                /\ CutFromGroup(assignments') \ CutFromGroup(assignments)
                     = PlacedPieceIds(placements)
                /\ PlacedPieceIds(placements) \subseteq IdsOf(sortedPieces)
     /\ (pc = "boards" /\ Len(remainingPieces) = 0) =>
          pc' = "groups" /\ assignments' = assignments
     /\ \A a \in 1..Len(assignments') : Len(assignments'[a].cuts) >= 1
     /\ \A a, b \in 1..Len(assignments') :
          a # b => assignments'[a].uniqueId # assignments'[b].uniqueId]_vars

\* the second board of a group has placed a piece that the first board,
\* which has got an assignment, has left
BoardsInOrderWitness ==
  /\ pc = "pack"
  /\ bi = 2
  /\ Len(placements) > 0
  /\ \E a \in 1..Len(assignments) : assignments[a].uniqueId = AvailableStock[1].uniqueId

(***************************************************************************)
(* Conservation of the piece instances in the plan                         *)
(***************************************************************************)

\* how many cuts of the plan's assignments and how many entries of its
\* unplacedPieces are instance k of the piece record with this id
TimesInPlan(id, k) ==
  Cardinality({ac \in UNION {{<<a, c>> : c \in 1..Len(plan.assignments[a].cuts)} :
                                a \in 1..Len(plan.assignments)} :
                 /\ plan.assignments[ac[1]].cuts[ac[2]].cutPieceId = id
                 /\ plan.assignments[ac[1]].cuts[ac[2]].cutPieceIndex = k})
  + Cardinality({u \in 1..Len(plan.unplacedPieces) :
                   plan.unplacedPieces[u].uniqueId = <<id, k>>})

\* C27: in a returned plan every instance of every piece record (the
\* records have distinct ids and a quantity of at least 1) is one cut of one
\* assignment or one entry of unplacedPieces, and nothing else: the number
\* of cuts plus the length of unplacedPieces is the sum of the quantities.
InstancesConserved ==
  Returned =>
    /\ \A i \in 1..Len(cutPieces) : \A k \in 0..(cutPieces[i].quantity - 1) :
          TimesInPlan(cutPieces[i].id, k) = 1
    /\ SumSeq([a \in 1..Len(plan.assignments) |-> Len(plan.assignments[a].cuts)])
         + Len(plan.unplacedPieces)
       = SumSeq([i \in 1..Len(cutPieces) |-> cutPieces[i].quantity])

\* a plan with a cut of one instance of a piece record of which another
\* instance is unplaced, and with a cut of another record
InstancesConservedWitness ==
  /\ Returned
  /\ \E ac \in CutsOf(plan.assignments) : \E u \in 1..Len(plan.unplacedPieces) :
        /\ plan.unplacedPieces[u].originalId = ac[2].cutPieceId
        /\ \E bc \in CutsOf(plan.assignments) : bc[2].cutPieceId # ac[2].cutPieceId

(***************************************************************************)
(* The boards calculateStockNeeded returns and the plan it returns         *)
(***************************************************************************)

\* calculateStockNeeded has returned a cutPlan in which no piece is unplaced
AllPlaced == StockPlanned /\ Len(stockNeeded.cutPlan.unplacedPieces) = 0

\* C28: when calculateStockNeeded returns a cutPlan with no unplaced piece,
\* every board counted in boardsNeeded has an assignment, with at least one
\* cut, in the cutPlan: cutPlan.boardsUsed = boardsNeeded.
NoBoardSuperfluous ==
  AllPlaced =>
    /\ stockNeeded.cutPlan.boardsUsed = stockNeeded.boardsNeeded
    /\ Len(stockNeeded.cutPlan.assignments) = stockNeeded.boardsNeeded
    /\ \A a \in 1..Len(stockNeeded.cutPlan.assignments) :
          Len(stockNeeded.cutPlan.assignments[a].cuts) >= 1

\* a result of several boards of two kinds, every piece placed
NoBoardSuperfluousWitness ==
  /\ AllPlaced
  /\ stockNeeded.boardsNeeded > Len(stockNeeded.boards)
  /\ Len(stockNeeded.boards) >= 2

\* the plan of optimizeCuts for the boards calculateStockNeeded has returned
PlanOfReturnedBoards == OptimizeCuts(stockNeeded.boards, cutPieces, kerf, clock)

\* C29: when calculateStockNeeded returns a cutPlan with no unplaced piece,
\* optimizeCuts on the returned boards (consolidated, with quantities), the
\* same pieces and the same kerf leaves no piece unplaced and uses as many
\* boards as the cutPlan.
RoundTrip ==
  AllPlaced =>
    /\ Len(PlanOfReturnedBoards.unplacedPieces) = 0
    /\ PlanOfReturnedBoards.boardsUsed = stockNeeded.cutPlan.boardsUsed

(***************************************************************************)
(* The groups do not interfere                                             *)
(***************************************************************************)

\* the records of a list that have the key, in their order
RecordsOfKey(records, key) == SelectIdx(records, LAMBDA i : KeyOf(records[i]) = key)

\* the plan of the call with the boards and pieces of one key only
PlanOfKeyAlone(key) ==
  OptimizeCuts(RecordsOfKey(stockBoards, key), RecordsOfKey(cutPieces, key), kerf,
               plan.generatedAt)

\* the keys of the boards and pieces of the call
KeysOfCall ==
  {KeyOf(stockBoards[i]) : i \in 1..Len(stockBoards)}
  \cup {KeyOf(cutPieces[i]) : i \in 1..Len(cutPieces)}

\* C30: the assignments, with their cuts, on the boards of one key and the
\* set of unplaced pieces of that key are those of the call with the boards
\* and pieces of that key only (the same records in the same order, the
\* same kerf), whatever the boards and pieces of the other keys are.
GroupsIndependent ==
  Returned =>
    \A key \in KeysOfCall :
       /\ RecordsOfKey(plan.assignments, key) = PlanOfKeyAlone(key).assignments
       /\ {plan.unplacedPieces[u] : u \in {v \in 1..Len(plan.unplacedPieces) :
                                              KeyOf(plan.unplacedPieces[v]) = key}}
          = {PlanOfKeyAlone(key).unplacedPieces[u] :
               u \in 1..Len(PlanOfKeyAlone(key).unplacedPieces)}

\* a plan with assignments on boards of two keys and an unplaced piece
GroupsIndependentWitness ==
  /\ Returned
  /\ Len(plan.unplacedPieces) > 0
  /\ \E a, b \in 1..Len(plan.assignments) :
        KeyOf(plan.assignments[a]) # KeyOf(plan.assignments[b])
====
